---- MODULE Spec2Model ----
(***************************************************************************)
(* WNTR algebraic modelling layer: expression graph with automatic         *)
(* differentiation, the IpoptModel registry with its Hessian sparsity map, *)
(* the AML_NLP solver callbacks, ConditionalConstraint, the compiled       *)
(* Evaluator and the threaded WNTRModel::evaluate.                         *)
(***************************************************************************)
EXTENDS Integers, Sequences, FiniteSets, TLC

None == "none"

(***************************************************************************)
(* Expression graph.  Nodes are heap objects; a node is named by a string  *)
(* that stands for its address.  The catalogue below is the heap after the *)
(* caller has run                                                          *)
(*     e = x*y;  S = e + 1.0;  G = S*w;  H = (u*u)*e;  Q = w*u;  R = x + y *)
(* Expression*Expression copies the node pointers of the right operand     *)
(* into the left one, so the operator object "xy" is a member of both e    *)
(* and H.                                                                  *)
(***************************************************************************)
Vars == {"w", "x", "y", "u"}

NoSparsity == [v \in Vars |-> <<>>]

Leaf(t) ==
    [type |-> t, node1 |-> None, node2 |-> None, nodes |-> <<>>,
     coefs |-> <<>>, constant |-> 0, sparsity |-> NoSparsity, vars |-> <<>>]

Operator(t, a, b) ==
    [type |-> t, node1 |-> a, node2 |-> b, nodes |-> <<>>,
     coefs |-> <<>>, constant |-> 0, sparsity |-> NoSparsity, vars |-> <<>>]

ExpressionNode(ns, vs) ==
    [type |-> "Expression", node1 |-> None, node2 |-> None, nodes |-> ns,
     coefs |-> <<>>, constant |-> 0, sparsity |-> NoSparsity, vars |-> vs]

SummationNode(ns, cs, c, sp, vs) ==
    [type |-> "Summation", node1 |-> None, node2 |-> None, nodes |-> ns,
     coefs |-> cs, constant |-> c, sparsity |-> sp, vars |-> vs]

Graph ==
    ( "w"  :> Leaf("Var") @@ "x" :> Leaf("Var") @@ "y" :> Leaf("Var")
   @@ "u"  :> Leaf("Var")
   @@ "xy" :> Operator("VarVarMultiplyOperator", "x", "y")
   @@ "e"  :> ExpressionNode(<<"xy">>, <<"x", "y">>)
   @@ "S"  :> SummationNode(<<"e">>, <<1>>, 1,
                            [v \in Vars |-> IF v \in {"x", "y"} THEN <<1>> ELSE <<>>],
                            <<"x", "y">>)
   @@ "Sw" :> Operator("OperatorVarMultiplyOperator", "S", "w")
   @@ "G"  :> ExpressionNode(<<"S", "Sw">>, <<"w", "x", "y">>)
   @@ "uu" :> Operator("VarVarMultiplyOperator", "u", "u")
   @@ "uuxy" :> Operator("OperatorOperatorMultiplyOperator", "uu", "xy")
   @@ "H"  :> ExpressionNode(<<"uu", "xy", "uuxy">>, <<"x", "y", "u">>)
   @@ "wu" :> Operator("VarVarMultiplyOperator", "w", "u")
   @@ "Q"  :> ExpressionNode(<<"wu">>, <<"w", "u">>)
   @@ "R"  :> SummationNode(<<"x", "y">>, <<1, 1>>, 0,
                            [v \in Vars |-> IF v = "x" THEN <<1>>
                                            ELSE IF v = "y" THEN <<2>> ELSE <<>>],
                            <<"x", "y">>)
   @@ "Cx" :> SummationNode(<<"x">>, <<1>>, -2,
                            [v \in Vars |-> IF v = "x" THEN <<1>> ELSE <<>>], <<"x">>)
   @@ "Cy" :> SummationNode(<<"y">>, <<1>>, -2,
                            [v \in Vars |-> IF v = "y" THEN <<1>> ELSE <<>>], <<"y">>) )

NodeIds == DOMAIN Graph

get_vars(n) == Graph[n].vars

Range(s) == {s[i] : i \in 1..Len(s)}

NoFlags == [has_der_n1 |-> FALSE, has_der_n2 |-> FALSE, has_der2 |-> FALSE]

(***************************************************************************)
(* has_ad: structural test "may the first derivative be nonzero".  It      *)
(* returns the flags after the call (fl) and the returned boolean (r).     *)
(* Only Summation and Expression override Node::has_ad.                    *)
(***************************************************************************)
RECURSIVE has_ad(_, _, _)
RECURSIVE SumHasAd(_, _, _, _, _, _)
RECURSIVE ExprHasAd(_, _, _, _)

\* Statement sequencing: a is evaluated to a value before b is evaluated.
Then(a, b) == IF a = a THEN b ELSE b

\* has_der_n1 += child->has_ad(n), c being the result of the child's call
SumHasAdStep(c, ns, n, sp, i, acc) ==
    IF c.r THEN SumHasAd(c.fl, ns, n, sp, i + 1, TRUE)
           ELSE SumHasAd(c.fl, ns, n, sp, i + 1, acc)

\* the loop over the sparsity list sp of a Summation with children ns
SumHasAd(fl, ns, n, sp, i, acc) ==
    IF i > Len(sp) THEN [fl |-> fl, r |-> acc]
    ELSE SumHasAdStep(has_ad(fl, ns[sp[i]], n), ns, n, sp, i, acc)

ExprHasAdStep(c, ns, n, i) == Then(c, ExprHasAd(c.fl, ns, n, i + 1))

\* call has_ad on every member node, discarding the results
ExprHasAd(fl, ns, n, i) ==
    IF i > Len(ns) THEN fl
    ELSE ExprHasAdStep(has_ad(fl, ns[i], n), ns, n, i)

\* has_der_n1 = (accumulated); return has_der_n1
SumHasAdEnd(s, id) ==
    Then(s, [fl |-> [s.fl EXCEPT ![id].has_der_n1 = s.r], r |-> s.r])

\* has_der_n1 = nodes->back()->has_der_n1; return has_der_n1
ExprHasAdEnd(f, id, back) ==
    Then(f, [fl |-> [f EXCEPT ![id].has_der_n1 = f[back].has_der_n1],
             r  |-> f[back].has_der_n1])

HasAdNode(fl, id, g, n) ==
    CASE g.type = "Summation" ->
            SumHasAdEnd(SumHasAd(fl, g.nodes, n, g.sparsity[n], 1, FALSE), id)
      [] g.type = "Expression" ->
            ExprHasAdEnd(ExprHasAd(fl, g.nodes, n, 1), id, g.nodes[Len(g.nodes)])
      [] OTHER -> [fl |-> fl, r |-> (id = n)]

has_ad(fl, id, n) == HasAdNode(fl, id, Graph[id], n)

(***************************************************************************)
(* has_ad2: structural test "may the second derivative be nonzero".        *)
(***************************************************************************)
RECURSIVE has_ad2(_, _, _, _)
RECURSIVE SumHasAd2(_, _, _, _, _, _, _)
RECURSIVE ExprHasAd2(_, _, _, _, _)

SumHasAd2Step(c, ns, n1, n2, sp, i, acc) ==
    IF c.r THEN SumHasAd2(c.fl, ns, n1, n2, sp, i + 1, TRUE)
           ELSE SumHasAd2(c.fl, ns, n1, n2, sp, i + 1, acc)

\* has_der2 += child->has_ad2(n1, n2) over the sparsity list of n1
SumHasAd2(fl, ns, n1, n2, sp, i, acc) ==
    IF i > Len(sp) THEN [fl |-> fl, r |-> acc]
    ELSE SumHasAd2Step(has_ad2(fl, ns[sp[i]], n1, n2), ns, n1, n2, sp, i, acc)

ExprHasAd2Step(c, ns, n1, n2, i) == Then(c, ExprHasAd2(c.fl, ns, n1, n2, i + 1))

\* call has_ad2 on every member node
ExprHasAd2(fl, ns, n1, n2, i) ==
    IF i > Len(ns) THEN fl
    ELSE ExprHasAd2Step(has_ad2(fl, ns[i], n1, n2), ns, n1, n2, i)

SetFlags(fl, id, a, b, c) ==
    [fl |-> [fl EXCEPT ![id] = [has_der_n1 |-> a, has_der_n2 |-> b, has_der2 |-> c]],
     r  |-> c]

\* Summation::has_ad2: first loop s1, second loop s2, third loop s3
SumLoop3(s1, s2, s3, id) == Then(s3, SetFlags(s3.fl, id, s1.r, s2.r, s3.r))

SumLoop2(s1, s2, id, g, n1, n2) ==
    Then(s2, SumLoop3(s1, s2,
                      SumHasAd2(s2.fl, g.nodes, n1, n2, g.sparsity[n1], 1, FALSE), id))

SumLoop1(s1, id, g, n1, n2) ==
    Then(s1, SumLoop2(s1, SumHasAd(s1.fl, g.nodes, n2, g.sparsity[n2], 1, FALSE),
                      id, g, n1, n2))

\* Expression::has_ad2: copy the three flags of nodes->back()
ExprHasAd2End(f, id, last) ==
    Then(f, SetFlags(f, id, f[last].has_der_n1, f[last].has_der_n2, f[last].has_der2))

HasAd2Node(fl, id, t, a, b, g, n1, n2) ==
    CASE t \in {"Var", "Param"} -> [fl |-> fl, r |-> FALSE]
      [] t = "Summation" ->
            SumLoop1(SumHasAd(fl, g.nodes, n1, g.sparsity[n1], 1, FALSE), id, g, n1, n2)
      [] t = "Expression" ->
            ExprHasAd2End(ExprHasAd2(fl, g.nodes, n1, n2, 1), id, g.nodes[Len(g.nodes)])
      [] t = "VarVarMultiplyOperator" ->
            SetFlags(fl, id, (a = n1) \/ (b = n1), (a = n2) \/ (b = n2),
                     ((a = n2) /\ (b = n1)) \/ ((a = n1) /\ (b = n2)))
      [] t = "VarParamMultiplyOperator" ->
            SetFlags(fl, id, a = n1, a = n2, FALSE)
      [] t = "VarOperatorMultiplyOperator" ->
            SetFlags(fl, id, (a = n1) \/ fl[b].has_der_n1,
                     (a = n2) \/ fl[b].has_der_n2,
                     fl[b].has_der2 \/ ((a = n2) /\ fl[b].has_der_n1)
                                    \/ ((a = n1) /\ fl[b].has_der_n2))
      [] t = "ParamVarMultiplyOperator" ->
            SetFlags(fl, id, b = n1, b = n2, FALSE)
      [] t = "ParamParamMultiplyOperator" ->
            SetFlags(fl, id, FALSE, FALSE, FALSE)
      [] t = "ParamOperatorMultiplyOperator" ->
            SetFlags(fl, id, fl[b].has_der_n1, fl[b].has_der_n2, fl[b].has_der2)
      [] t = "OperatorVarMultiplyOperator" ->
            SetFlags(fl, id, fl[a].has_der_n1 \/ (b = n1),
                     fl[a].has_der_n2 \/ (b = n2),
                     (fl[a].has_der_n2 /\ (b = n1)) \/ fl[a].has_der2
                        \/ (fl[a].has_der_n1 /\ (b = n2)))
      [] t = "OperatorParamMultiplyOperator" ->
            SetFlags(fl, id, fl[a].has_der_n1, fl[a].has_der_n2, fl[a].has_der2)
      [] t = "OperatorOperatorMultiplyOperator" ->
            SetFlags(fl, id, fl[a].has_der_n1 \/ fl[b].has_der_n1,
                     fl[a].has_der_n2 \/ fl[b].has_der_n2,
                     fl[b].has_der2 \/ (fl[a].has_der_n2 /\ fl[b].has_der_n1)
                        \/ fl[a].has_der2 \/ (fl[a].has_der_n1 /\ fl[b].has_der_n2))

NodeOf(g, id, fl, n1, n2) == HasAd2Node(fl, id, g.type, g.node1, g.node2, g, n1, n2)

has_ad2(fl, id, n1, n2) == NodeOf(Graph[id], id, fl, n1, n2)

(***************************************************************************)
(* Numeric evaluation and forward automatic differentiation.  num maps a   *)
(* node to its fields value, der_n1, der_n2, der2.  Call(mth, ...) is the  *)
(* virtual call node->evaluate(), node->ad(n1, new_eval) or                *)
(* node->ad2(n1, n2, new_eval); it returns the fields after the call (num) *)
(* and the returned number (r).                                            *)
(***************************************************************************)
NoNum == [value |-> 0, der_n1 |-> 0, der_n2 |-> 0, der2 |-> 0]

IsLeaf(o) == Graph[o].type \in {"Var", "Param"}

\* Var::ad / Param::ad
LeafAd(o, n) == IF Graph[o].type = "Var" /\ o = n THEN 1 ELSE 0

\* what a multiply operator reads for the first derivative of an operand:
\* the operand's ad() when it is a Var or Param, its der field otherwise
D1(num, o, n, field) == IF IsLeaf(o) THEN LeafAd(o, n) ELSE num[o][field]

\* the second derivative of an operand: 0 for a Var or Param
D2(num, o) == IF IsLeaf(o) THEN 0 ELSE num[o].der2

RECURSIVE Call(_, _, _, _, _, _)
RECURSIVE ExprLoop(_, _, _, _, _, _, _)
RECURSIVE SumLoop(_, _, _, _, _, _, _, _, _)

ExprLoopNext(mth, c, ns, n1, n2, ne, i) ==
    Then(c, ExprLoop(mth, c.num, ns, n1, n2, ne, i + 1))

\* for (auto &n : *nodes) n->mth(...)
ExprLoop(mth, num, ns, n1, n2, ne, i) ==
    IF i > Len(ns) THEN num
    ELSE ExprLoopNext(mth, Call(mth, num, ns[i], n1, n2, ne), ns, n1, n2, ne, i)

SumLoopNext(mth, c, g, sp, n1, n2, ne, i, acc) ==
    Then(c, SumLoop(mth, c.num, g, sp, n1, n2, ne, i + 1,
                    acc + g.coefs[sp[i]] * c.r))

\* acc += coefs[ndx] * nodes[ndx]->mth(...) for ndx in sp
SumLoop(mth, num, g, sp, n1, n2, ne, i, acc) ==
    IF i > Len(sp) THEN [num |-> num, r |-> acc]
    ELSE SumLoopNext(mth, Call(mth, num, g.nodes[sp[i]], n1, n2, ne),
                     g, sp, n1, n2, ne, i, acc)

SetField(c, id, field) ==
    Then(c, [num |-> [c.num EXCEPT ![id][field] = c.r], r |-> c.r])

AllChildren(g) == [i \in 1..Len(g.nodes) |-> i]

\* Summation::evaluate
SumEvaluate(num, id, g) ==
    SetField(SumLoop("evaluate", num, g, AllChildren(g), None, None, FALSE,
                     1, g.constant), id, "value")

\* if (new_eval) evaluate();
NewEval(mth, num, id, ne) ==
    IF ne /\ mth # "evaluate" THEN Call("evaluate", num, id, None, None, FALSE).num
    ELSE num

\* Summation::ad2 after the der_n1 loop (c1): the der_n2 loop, then der2
SumAd2Last(c2, id, g, n1, n2, ne) ==
    SetField(SumLoop("ad2", c2.num, g, g.sparsity[n1], n1, n2, ne, 1, 0), id, "der2")

SumAd2Second(c1, id, g, n1, n2, ne) ==
    SumAd2Last(SetField(SumLoop("ad", c1.num, g, g.sparsity[n2], n2, None, ne, 1, 0),
                        id, "der_n2"), id, g, n1, n2, ne)

\* Expression: copy the fields of nodes->back()
ExprEnd(mth, num, id, back) ==
    Then(num,
      CASE mth = "evaluate" ->
              [num |-> [num EXCEPT ![id].value = num[back].value],
               r |-> num[back].value]
        [] mth = "ad" ->
              [num |-> [num EXCEPT ![id].der_n1 = num[back].der_n1],
               r |-> num[back].der_n1]
        [] mth = "ad2" ->
              [num |-> [num EXCEPT ![id].der_n1 = num[back].der_n1,
                                   ![id].der_n2 = num[back].der_n2,
                                   ![id].der2 = num[back].der2],
               r |-> num[back].der2])

\* the nine *MultiplyOperator classes
Multiply(mth, num, id, a, b, n1, n2) ==
    CASE mth = "evaluate" ->
            SetField([num |-> num, r |-> num[a].value * num[b].value], id, "value")
      [] mth = "ad" ->
            SetField([num |-> num,
                      r |-> num[a].value * D1(num, b, n1, "der_n1")
                            + num[b].value * D1(num, a, n1, "der_n1")], id, "der_n1")
      [] mth = "ad2" ->
            [num |-> [num EXCEPT
                 ![id].der_n1 = num[a].value * D1(num, b, n1, "der_n1")
                                + num[b].value * D1(num, a, n1, "der_n1"),
                 ![id].der_n2 = num[a].value * D1(num, b, n2, "der_n2")
                                + num[b].value * D1(num, a, n2, "der_n2"),
                 ![id].der2 = num[a].value * D2(num, b)
                              + D1(num, b, n1, "der_n1") * D1(num, a, n2, "der_n2")
                              + num[b].value * D2(num, a)
                              + D1(num, a, n1, "der_n1") * D1(num, b, n2, "der_n2")],
             r |-> num[a].value * D2(num, b)
                   + D1(num, b, n1, "der_n1") * D1(num, a, n2, "der_n2")
                   + num[b].value * D2(num, a)
                   + D1(num, a, n1, "der_n1") * D1(num, b, n2, "der_n2")]

CallNode(mth, num, id, g, n1, n2, ne) ==
    CASE g.type \in {"Var", "Param"} ->
            [num |-> num,
             r |-> CASE mth = "evaluate" -> num[id].value
                     [] mth = "ad" -> LeafAd(id, n1)
                     [] mth = "ad2" -> 0]
      [] g.type = "Summation" /\ mth = "evaluate" -> SumEvaluate(num, id, g)
      [] g.type = "Summation" /\ mth = "ad" ->
            SetField(SumLoop("ad", NewEval(mth, num, id, ne), g, g.sparsity[n1],
                             n1, None, ne, 1, 0), id, "der_n1")
      [] g.type = "Summation" /\ mth = "ad2" ->
            SumAd2Second(SetField(SumLoop("ad", NewEval(mth, num, id, ne), g,
                                          g.sparsity[n1], n1, None, ne, 1, 0),
                                  id, "der_n1"), id, g, n1, n2, ne)
      [] g.type = "Expression" ->
            ExprEnd(mth, ExprLoop(mth, NewEval(mth, num, id, ne), g.nodes,
                                  n1, n2, ne, 1), id, g.nodes[Len(g.nodes)])
      [] OTHER -> Multiply(mth, num, id, g.node1, g.node2, n1, n2)

Call(mth, num, id, n1, n2, ne) == CallNode(mth, num, id, Graph[id], n1, n2, ne)

evaluate(num, id) == Call("evaluate", num, id, None, None, FALSE)

ad(num, id, n, new_eval) == Call("ad", num, id, n, None, new_eval)

ad2(num, id, n1, n2, new_eval) == Call("ad2", num, id, n1, n2, new_eval)

(***************************************************************************)
(* IpoptModel registry (list based).  Components are named by strings.     *)
(***************************************************************************)
Constraints == {"c1", "c2"}
Objectives  == {"o1", "o2"}

\* IpoptComponent::expr, fixed by create_ipopt_constraint/create_ipopt_objective
expr == ("c1" :> "G" @@ "c2" :> "H" @@ "o1" :> "Q" @@ "o2" :> "R")

VARIABLES
    flags,        \* has_der_n1 / has_der_n2 / has_der2 of every node
    vindex,       \* Var::index
    cindex,       \* IpoptComponent::index of every constraint
    vars,         \* IpoptModel::vars (list)
    cons,         \* IpoptModel::cons (list)
    obj,          \* IpoptModel::obj (None for nullptr)
    hessian_map,  \* IpoptModel::hessian_map
    uvars,        \* set-based IpoptModel::vars
    ucons,        \* set-based IpoptModel::cons
    uobj,         \* set-based IpoptModel::obj
    uhessian_map, \* set-based IpoptModel::hessian_map
    num,          \* value / der_n1 / der_n2 / der2 of every node
    dual,         \* IpoptConstraint::dual
    var_duals,    \* Var::lb_dual and Var::ub_dual
    solver_status,\* IpoptModel::solver_status
    pc,           \* "idle", or where the solver is inside IpoptModel::solve
    info,         \* what get_nlp_info reported to the solver
    pat,          \* what the pattern calls of eval_jac_g / eval_h wrote
    out,          \* the last value callback: its arguments and what it wrote
    solves,       \* number of IpoptModel::solve calls so far
    calls,        \* number of value callbacks since solve was called
    installed,    \* the x of the last callback of this solve that had new_x
    condition_exprs, \* ConditionalConstraint::condition_exprs
    exprs,        \* ConditionalConstraint::exprs
    cc_pc,        \* "ok", or "crashed" once a call on the conditional has crashed
    cc_out,       \* the last call on the conditional and what it returned
    cc_steps,     \* number of value assignments and calls on the conditional
    is_structure_set, \* Evaluator::is_structure_set
    leaf_set,     \* Evaluator::var_set and float_set
    con_set,      \* Evaluator::con_set
    if_else_con_set, \* Evaluator::if_else_con_set
    leaf_value,   \* Leaf::value
    var_index,    \* Var::index (sim/aml)
    tab,          \* the tables set_structure builds, nnz and the stack
    last_structure_op, \* the last of set_structure / remove_structure called
    ev_out,       \* the last Evaluator call: how it ended and what it wrote
    is_structure_fixed, \* WNTRModel::is_structure_fixed
    wm_cons,      \* WNTRModel::cons
    cons_vector,  \* WNTRModel::cons_vector
    wm_pc,        \* where WNTRModel::evaluate stands: idle, spawn or join
    wm_call,      \* its num_threads and its locals _thread and ndx
    threads_array, \* per thread: its indices, its position in them, its state
    array_out,    \* per output position: the value, the writes, the last writer
    wm_out,       \* how the last WNTRModel::evaluate call ended
    wm_vars,      \* WNTRModel::vars
    nnz,          \* WNTRModel::nnz
    vars_vector,  \* WNTRModel::vars_vector
    wm_index,     \* Var::index and Constraint::index as set_structure wrote them
    var_value,    \* Var::value of the Vars of the WNTRModel
    wm_op,        \* the WNTRModel method called last
    wm_array,     \* what the last call wrote to the arrays it was passed
    heap,         \* the Node objects the expression operators work on
    brk,          \* number of objects the operators have allocated
    held,         \* the objects the caller holds a reference to
    b_out,        \* the last operator or evaluate call and what it returned
    b_pc,         \* "ok", or "crashed" once a call has crashed
    b_steps,      \* number of operator calls so far
    b_evals,      \* number of evaluate calls so far
    csr,          \* CoreModel::jac: the lists row_nnz, col_ndx, vars and cons
    core_cons,    \* CoreModel::cons
    csr_out       \* the last register_constraint or remove_constraint call

heapVars  == <<flags, vindex>>
ipoptVars == <<cindex, vars, cons, obj, hessian_map>>
usetVars  == <<uvars, ucons, uobj, uhessian_map>>
evalVars  == <<is_structure_set, leaf_set, con_set, if_else_con_set, leaf_value,
               var_index, tab, last_structure_op, ev_out>>
wmVars    == <<is_structure_fixed, wm_cons, cons_vector, wm_pc, wm_call,
               threads_array, array_out, wm_out, wm_vars, nnz, vars_vector, wm_index,
               var_value, wm_op, wm_array>>
condVars  == <<condition_exprs, exprs, cc_pc, cc_out, cc_steps>>
buildVars == <<heap, brk, held, b_out, b_pc, b_steps, b_evals>>
csrVars   == <<csr, core_cons, csr_out>>
nlpVars   == <<num, dual, var_duals, solver_status, pc, info, pat, out, solves, calls, installed>>

NoContrib == [obj |-> {}, cons |-> {}]

EmptyMap == [k \in {} |-> NoContrib]

\* hessian_map[v1][v2], creating the missing keys as operator[] does
Touch(hm, v1, v2) ==
    LET row == IF v1 \in DOMAIN hm THEN hm[v1] ELSE EmptyMap
        col == IF v2 \in DOMAIN row THEN row[v2] ELSE NoContrib
    IN  (v1 :> ((v2 :> col) @@ row)) @@ hm

Restrict(f, S) == [k \in S |-> f[k]]

HessianInsert(hm, v1, v2, kind, c) ==
    LET t == Touch(hm, v1, v2)
    IN  [t EXCEPT ![v1][v2][kind] = @ \cup {c}]

\* an erase that leaves the emptied entry and row in the map
KeepEmpty(hm, v1, v2) == Touch(hm, v1, v2)

\* hessian_map[v1][v2][kind].erase(c)
EraseContributor(hm, v1, v2, kind, c) ==
    LET t == Touch(hm, v1, v2)
    IN  [t EXCEPT ![v1][v2][kind] = @ \ {c}]

\* drop the entry when both contributor sets are empty, then the row when
\* it has no entry left (the size() tests create the missing keys first)
Prune(hm, v1, v2) ==
    LET t == Touch(hm, v1, v2)
        p == IF t[v1][v2].cons = {} /\ t[v1][v2].obj = {}
             THEN [t EXCEPT ![v1] = Restrict(@, DOMAIN @ \ {v2})]
             ELSE t
    IN  IF DOMAIN p[v1] = {} THEN Restrict(p, DOMAIN p \ {v1}) ELSE p

HessianErase(hm, v1, v2, kind, c) ==
    Prune(EraseContributor(hm, v1, v2, kind, c), v1, v2)

\* the (v1, v2) pairs visited by the nested loops, in visiting order
RECURSIVE PairSeq(_, _, _, _)
PairSeq(vs, idx, i, j) ==
    IF i > Len(vs) THEN <<>>
    ELSE IF j > Len(vs) THEN PairSeq(vs, idx, i + 1, 1)
    ELSE (IF idx[vs[j]] <= idx[vs[i]] THEN << <<vs[i], vs[j]>> >> ELSE <<>>)
         \o PairSeq(vs, idx, i, j + 1)

\* what one loop iteration does to the map when has_ad2 returned true
Apply(mode, hm, v1, v2, k, c) ==
    CASE mode = "insert" -> HessianInsert(hm, v1, v2, k, c)
      [] mode = "erase" -> HessianErase(hm, v1, v2, k, c)
      [] mode = "insert_both" ->
            HessianInsert(HessianInsert(hm, v1, v2, k, c), v2, v1, k, c)
      [] mode = "erase_both" ->
            Prune(Prune(EraseContributor(EraseContributor(hm, v1, v2, k, c),
                                         v2, v1, k, c), v1, v2), v2, v1)

RECURSIVE Pass(_, _, _, _, _, _, _)

PassNext(fl, m, mode, c, k, ps, i) == Then(m, Pass(fl, m, mode, c, k, ps, i + 1))

PassStep(h, hm, mode, c, k, ps, i) ==
    IF h.r THEN PassNext(h.fl, Apply(mode, hm, ps[i][1], ps[i][2], k, c),
                         mode, c, k, ps, i)
           ELSE Pass(h.fl, hm, mode, c, k, ps, i + 1)

\* the nested loops of one registry operation over the pair list ps
Pass(fl, hm, mode, c, k, ps, i) ==
    IF i > Len(ps) THEN [fl |-> fl, hm |-> hm]
    ELSE PassStep(has_ad2(fl, expr[c], ps[i][1], ps[i][2]), hm, mode, c, k, ps, i)

RemoveAt(s, i) == SubSeq(s, 1, i - 1) \o SubSeq(s, i + 1, Len(s))

\* The caller keeps every index equal to the list position: after a change
\* of the list it renumbers the members from the front.
RECURSIVE PositionIndex(_, _, _)
PositionIndex(s, idx, i) ==
    IF i > Len(s) THEN idx
    ELSE PositionIndex(s, [idx EXCEPT ![s[i]] = i - 1], i + 1)

\* the pairs the registry loops visit for component c
VarPairs(c) == PairSeq(get_vars(expr[c]), vindex, 1, 1)

HeapInit ==
    /\ flags = [n \in NodeIds |-> NoFlags]
    /\ vindex = [v \in Vars |-> -1]

IpoptInit ==
    /\ cindex = [c \in Constraints |-> -1]
    /\ vars = <<>>
    /\ cons = <<>>
    /\ obj = None
    /\ hessian_map = EmptyMap

USetInit ==
    /\ uvars = {}
    /\ ucons = {}
    /\ uobj = None
    /\ uhessian_map = EmptyMap

\* an array the solver has not been handed yet is the empty sequence
NoPattern == [jac |-> <<>>, h |-> <<>>]
NoCall == [op |-> "none", new_x |-> FALSE, args |-> <<>>, values |-> <<>>,
           pairs |-> <<>>]

NLPInit ==
    /\ num = [n \in NodeIds |-> NoNum]
    /\ dual = [c \in Constraints |-> 0]
    /\ var_duals = [v \in Vars |-> <<0, 0>>]
    /\ solver_status = ""
    /\ pc = "idle"
    /\ info = <<>>
    /\ pat = NoPattern
    /\ out = NoCall
    /\ solves = 0
    /\ calls = 0
    /\ installed = <<>>

NoCcCall == [op |-> "none", n1 |-> None, n2 |-> None, new_eval |-> FALSE,
             branch |-> 0, r |-> 0]

CondInit ==
    /\ condition_exprs = <<>>
    /\ exprs = <<>>
    /\ cc_pc = "ok"
    /\ cc_out = NoCcCall
    /\ cc_steps = 0

\* the tables before the first set_structure; nnz and stack are not
\* initialised by the constructor
NoTables ==
    [var_vector |-> <<>>, leaves |-> <<>>, col_ndx |-> <<>>, row_nnz |-> <<>>,
     fn_rpn |-> <<>>, jac_rpn |-> <<>>, n_conditions |-> <<>>,
     if_else_condition_rpn |-> <<>>, if_else_fn_rpn |-> <<>>,
     if_else_jac_rpn |-> <<>>, max_rpn_size |-> 0, thrown |-> FALSE,
     nnz |-> -1, stack |-> "uninitialised"]

\* stack: the indices at which the call read or wrote the stack
NoWritten == [values |-> <<>>, col_ndx |-> <<>>, row_nnz |-> <<>>, stack |-> {}]

NoEvCall == [op |-> "none", result |-> "none", written |-> NoWritten]

EVars == {"v1", "v2"}
EFloats == {"one"}
EParams == {"par"}

EvalInit ==
    /\ is_structure_set = FALSE
    /\ leaf_set = {}
    /\ con_set = {}
    /\ if_else_con_set = {}
    /\ leaf_value = [l \in EVars \cup EFloats \cup EParams |-> 0]
    /\ var_index = [v \in EVars |-> -1]
    /\ tab = NoTables
    /\ last_structure_op = "none"
    /\ ev_out = NoEvCall

NoWmCall == [num_threads |-> 0, thread |-> 0, ndx |-> 0]

WmVarSet == {"p", "q"}
WmCons == {"k1", "k2", "k3"}

\* arrays no call has written to
NoArrays == [x |-> <<>>, values |-> <<>>, col_ndx |-> <<>>, row_nnz |-> <<>>]

WmInit ==
    /\ is_structure_fixed = FALSE
    /\ wm_cons = {}
    /\ cons_vector = <<>>
    /\ wm_pc = "idle"
    /\ wm_call = NoWmCall
    /\ threads_array = <<>>
    /\ array_out = <<>>
    /\ wm_out = "none"
    /\ wm_vars = {}
    /\ nnz = 0
    /\ vars_vector = <<>>
    /\ wm_index = [o \in WmVarSet \cup WmCons |-> -1]
    /\ var_value = [v \in WmVarSet |-> 0]
    /\ wm_op = "none"
    /\ wm_array = NoArrays

(***************************************************************************)
(* The objects of the expression operators.  An object is named by a      *)
(* string that stands for its address: the Vars the caller created, and   *)
(* ObjectNames[k] for the k-th object an operator allocates.               *)
(***************************************************************************)
BVars == {"x", "y"}

ObjectNames == <<"a1", "a2", "a3", "a4">>

BNoSparsity == [v \in BVars |-> <<>>]

\* a Node as constructed: value = 0.0, empty containers
Free ==
    [type |-> "free", op |-> None, node1 |-> None, node2 |-> None, nodes |-> <<>>,
     coefs |-> <<>>, constant |-> 0, sparsity |-> BNoSparsity, vars |-> {},
     value |-> 0]

\* create_var(value)
NewVar(val) == [Free EXCEPT !.type = "Var", !.value = val]

\* the values the caller gave the Vars
BValue == ("x" :> 1 @@ "y" :> 2)

NoBuild == [op |-> "none", a |-> None, b |-> None, c |-> 0, r |-> None, value |-> 0]

BuildInit ==
    /\ heap = [n \in BVars \cup Range(ObjectNames) |->
                  IF n \in BVars THEN NewVar(BValue[n]) ELSE Free]
    /\ brk = 0
    /\ held = BVars
    /\ b_out = NoBuild
    /\ b_pc = "ok"
    /\ b_steps = 0
    /\ b_evals = 0

NoCsrCall == [op |-> "none", con |-> "none", index |-> -1]

\* the member initialisers of CSRJacobian: row_nnz = {0}
CsrInit ==
    /\ csr = [row_nnz |-> <<0>>, col_ndx |-> <<>>, vars |-> <<>>, cons |-> <<>>]
    /\ core_cons = <<>>
    /\ csr_out = NoCsrCall

Init ==
    /\ HeapInit /\ IpoptInit /\ USetInit /\ NLPInit /\ CondInit /\ EvalInit /\ WmInit
    /\ BuildInit /\ CsrInit

notIpopt == <<usetVars, nlpVars, condVars, evalVars, wmVars, csrVars, buildVars>>

\* the flags and the map a registry operation leaves behind
Commit(p) == flags' = p.fl /\ hessian_map' = p.hm

\* second half of set_objective: r is the state after the old objective
\* was taken out
InsertNew(r, mode, new_obj, ps) ==
    Then(r, Pass(r.fl, r.hm, mode, new_obj, "obj", ps, 1))

add_var(v) ==
    /\ pc = "idle"
    /\ v \notin Range(vars)
    /\ vars' = Append(vars, v)
    /\ vindex' = PositionIndex(vars', vindex, 1)
    /\ UNCHANGED <<flags, cindex, cons, obj, hessian_map, notIpopt>>

AllRegistered == Range(vars) = Vars

add_constraint(con) ==
    /\ pc = "idle"
    /\ AllRegistered
    /\ con \notin Range(cons)
    /\ cons' = Append(cons, con)
    /\ cindex' = PositionIndex(cons', cindex, 1)
    /\ Commit(Pass(flags, hessian_map, "insert", con, "cons", VarPairs(con), 1))
    /\ UNCHANGED <<vindex, vars, obj, notIpopt>>

remove_constraint(con) ==
    /\ pc = "idle"
    /\ con \in Range(cons)
    /\ cons' = RemoveAt(cons, cindex[con] + 1)
    /\ cindex' = PositionIndex(cons', [cindex EXCEPT ![con] = -1], 1)
    /\ Commit(Pass(flags, hessian_map, "erase", con, "cons", VarPairs(con), 1))
    /\ UNCHANGED <<vindex, vars, obj, notIpopt>>

set_objective(new_obj) ==
    /\ pc = "idle"
    /\ AllRegistered
    /\ Commit(InsertNew(Pass(flags, hessian_map, "erase", obj, "obj",
                              IF obj # None THEN VarPairs(obj) ELSE <<>>, 1),
                         "insert", new_obj, VarPairs(new_obj)))
    /\ obj' = new_obj
    /\ UNCHANGED <<vindex, cindex, vars, cons, notIpopt>>

IpoptNext ==
    \/ \E v \in Vars : add_var(v)
    \/ \E c \in Constraints : add_constraint(c)
    \/ \E c \in Constraints : remove_constraint(c)
    \/ \E o \in Objectives : set_objective(o)

allVars == <<heapVars, ipoptVars, usetVars, nlpVars, condVars, evalVars, wmVars, csrVars,
             buildVars>>

SpecIpopt == Init /\ [][IpoptNext]_allVars

\* Components currently in the model
InModel == Range(cons) \cup (IF obj = None THEN {} ELSE {obj})

kind(c) == IF c \in Objectives THEN "obj" ELSE "cons"

\* the contributor set hessian_map[v1][v2][k], empty when the key is absent
Contributors(hm, v1, v2, k) ==
    IF v1 \in DOMAIN hm /\ v2 \in DOMAIN hm[v1] THEN hm[v1][v2][k] ELSE {}

\* the (v1, v2) keys present in the map
Keys(hm) == UNION {{<<v1, v2>> : v2 \in DOMAIN hm[v1]} : v1 \in DOMAIN hm}

\* C1: after any sequence of set_objective / add_constraint /
\* remove_constraint, every component C of the model is a contributor of
\* hessian_map[v1][v2] exactly when C.has_ad2(v1, v2) is true, for every
\* pair of its variables with v2.index <= v1.index, and no component that
\* is not in the model appears in any contributor set.
C1_HessianMapMatchesHasAd2 ==
    /\ \A c \in InModel :
         \A v1 \in Range(get_vars(expr[c])) : \A v2 \in Range(get_vars(expr[c])) :
            vindex[v2] <= vindex[v1] =>
               ((c \in Contributors(hessian_map, v1, v2, kind(c)))
                   <=> has_ad2(flags, expr[c], v1, v2).r)
    /\ \A k \in Keys(hessian_map) :
         (hessian_map[k[1]][k[2]].obj \cup hessian_map[k[1]][k[2]].cons)
             \subseteq InModel

(***************************************************************************)
(* IpoptModel registry (set based).  Vars and constraints are kept in      *)
(* unordered sets; the loops visit each unordered pair once and record     *)
(* both orientations.                                                      *)
(***************************************************************************)
RECURSIVE UPairSeq(_, _, _)
UPairSeq(vs, i, j) ==
    IF i > Len(vs) THEN <<>>
    ELSE IF j > Len(vs) THEN UPairSeq(vs, i + 1, i + 1)
    ELSE << <<vs[i], vs[j]>> >> \o UPairSeq(vs, i, j + 1)

UVarPairs(c) == UPairSeq(get_vars(expr[c]), 1, 1)

UCommit(p) == flags' = p.fl /\ uhessian_map' = p.hm

notUSet == <<ipoptVars, nlpVars, condVars, evalVars, wmVars, csrVars, buildVars>>

u_add_var(v) ==
    /\ v \notin uvars
    /\ uvars' = uvars \cup {v}
    /\ vindex' = [vindex EXCEPT ![v] = Cardinality(uvars)]
    /\ UNCHANGED <<flags, ucons, uobj, uhessian_map, notUSet>>

u_add_constraint(con) ==
    /\ uvars = Vars
    /\ con \notin ucons
    /\ ucons' = ucons \cup {con}
    /\ UCommit(Pass(flags, uhessian_map, "insert_both", con, "cons", UVarPairs(con), 1))
    /\ UNCHANGED <<vindex, uvars, uobj, notUSet>>

u_remove_constraint(con) ==
    /\ con \in ucons
    /\ ucons' = ucons \ {con}
    /\ UCommit(Pass(flags, uhessian_map, "erase_both", con, "cons", UVarPairs(con), 1))
    /\ UNCHANGED <<vindex, uvars, uobj, notUSet>>

u_set_objective(new_obj) ==
    /\ uvars = Vars
    /\ UCommit(InsertNew(Pass(flags, uhessian_map, "erase_both", uobj, "obj",
                               IF uobj # None THEN UVarPairs(uobj) ELSE <<>>, 1),
                          "insert_both", new_obj, UVarPairs(new_obj)))
    /\ uobj' = new_obj
    /\ UNCHANGED <<vindex, uvars, ucons, notUSet>>

USetNext ==
    \/ \E v \in Vars : u_add_var(v)
    \/ \E c \in Constraints : u_add_constraint(c)
    \/ \E c \in Constraints : u_remove_constraint(c)
    \/ \E o \in Objectives : u_set_objective(o)

SpecIpoptSet == Init /\ [][USetNext]_allVars

DistinctIndices(S) == \A a \in S : \A b \in S : a # b => vindex[a] # vindex[b]

\* C2: when the variables carry distinct indices, hessian_map has no key
\* hessian_map[v1][v2] with v2.index > v1.index (set based registry).
C2_LowerTriangular ==
    DistinctIndices(Vars) =>
        \A k \in Keys(uhessian_map) : vindex[k[2]] <= vindex[k[1]]

\* The list based registry keeps the lower triangle: every key it stores
\* has v2.index <= v1.index.
ListLowerTriangular ==
    \A k \in Keys(hessian_map) : vindex[k[2]] <= vindex[k[1]]

\* the expressions the caller holds
Roots == {"e", "S", "G", "H", "Q", "R"}

\* the flags of a heap on which has_ad and has_ad2 were never called
FreshFlags == [n \in NodeIds |-> NoFlags]

\* C18: has_ad2(v1, v2) is a pure function of the expression's structure:
\* the flags earlier has_ad / has_ad2 calls left on the nodes never change
\* the result.
C18_HasAd2IsPure ==
    \A r \in Roots : \A v1 \in Vars : \A v2 \in Vars :
        has_ad2(flags, r, v1, v2).r = has_ad2(FreshFlags, r, v1, v2).r

\* the registry state add_constraint(c) leaves, and the one the following
\* remove_constraint(c) leaves (list based registry)
AfterAdd(c) == Pass(flags, hessian_map, "insert", c, "cons", VarPairs(c), 1)

Removed(a, mode, c, ps) == Then(a, Pass(a.fl, a.hm, mode, c, "cons", ps, 1))

AfterAddRemove(c) == Removed(AfterAdd(c), "erase", c, VarPairs(c))

\* the same pair in the set based registry
UAfterAdd(c) == Pass(flags, uhessian_map, "insert_both", c, "cons", UVarPairs(c), 1)

UAfterAddRemove(c) == Removed(UAfterAdd(c), "erase_both", c, UVarPairs(c))

\* C13: for a constraint c that is not in the model, add_constraint(c)
\* followed by remove_constraint(c) leaves hessian_map with exactly the
\* keys and contributor sets it had before the pair (list based registry).
C13_AddRemoveRestoresMap ==
    AllRegistered =>
        \A c \in Constraints \ Range(cons) : AfterAddRemove(c).hm = hessian_map

\* the same law for the set based registry
USetAddRemoveRestoresMap ==
    uvars = Vars =>
        \A c \in Constraints \ ucons : UAfterAddRemove(c).hm = uhessian_map


(***************************************************************************)
(* AML_NLP: the callbacks the solver makes between the start and the end   *)
(* of IpoptModel::solve.  Arrays handed over by the solver are sequences;  *)
(* position k of an array is element k + 1 of the sequence.                *)
(***************************************************************************)
XPoints == {<<2, 3, 5, 7>>, <<1, 2, 1, 3>>}
LambdaPoints == {<<3, 1>>}
ObjFactors == {2}
\* the point the solver stops at
FinalPoints == {<<1, 2, 1, 3>>}
\* the enumerators of the solver's SolverReturn
Statuses ==
    {"SUCCESS", "MAXITER_EXCEEDED", "CPUTIME_EXCEEDED", "STOP_AT_TINY_STEP",
     "STOP_AT_ACCEPTABLE_POINT", "LOCAL_INFEASIBILITY", "USER_REQUESTED_STOP",
     "FEASIBLE_POINT_FOUND", "DIVERGING_ITERATES", "RESTORATION_FAILURE",
     "ERROR_IN_STEP_COMPUTATION", "INVALID_NUMBER_DETECTED",
     "TOO_FEW_DEGREES_OF_FREEDOM", "INVALID_OPTION", "OUT_OF_MEMORY",
     "INTERNAL_ERROR", "UNASSIGNED"}
\* the bound multipliers the solver stops with
ZLPoints == {<<1, 0, 2, 0>>}
ZUPoints == {<<0, 3, 0, 1>>}
\* what a read outside the lambda array may deliver
Junk == {0, 4}

\* eval_h reads lambda[-1] when a contributor is a constraint that was removed
ReadsOutside(hm) ==
    \E v1 \in DOMAIN hm : \E v2 \in DOMAIN hm[v1] :
        \E c \in hm[v1][v2].cons : cindex[c] = -1

JunkRead == IF ReadsOutside(hessian_map) THEN Junk ELSE {0}

\* iteration order of the std::set / std::map containers keyed by pointer
AddressOrder == <<"w", "x", "y", "u", "c1", "c2", "o1", "o2">>

InAddressOrder(S) == SelectSeq(AddressOrder, LAMBDA a : a \in S)

RECURSIVE InstallX(_, _, _, _)
\* for (auto &v : vars) v->value = x[v->index];
InstallX(nm, vs, x, i) ==
    IF i > Len(vs) THEN nm
    ELSE Then(nm, InstallX([nm EXCEPT ![vs[i]].value = x[vindex[vs[i]] + 1]],
                           vs, x, i + 1))

RECURSIVE EvaluateCons(_, _, _)
\* for (auto &con : cons) con->expr->evaluate();
EvaluateCons(nm, cs, i) ==
    IF i > Len(cs) THEN nm
    ELSE Then(nm, EvaluateCons(evaluate(nm, expr[cs[i]]).num, cs, i + 1))

\* a callback that installs x and re-evaluates whatever new_x says
NewXIgnored(nm, x, new_x) ==
    IF obj = None THEN EvaluateCons(InstallX(nm, vars, x, 1), cons, 1)
    ELSE EvaluateCons(evaluate(InstallX(nm, vars, x, 1), expr[obj]).num, cons, 1)

\* the if (new_x) { ... } block every value callback starts with
NewX(nm, x, new_x) ==
    IF new_x
    THEN EvaluateCons(evaluate(InstallX(nm, vars, x, 1), expr[obj]).num, cons, 1)
    ELSE nm

\* a callback that goes through the null obj pointer
NullObj(new_x, reads_obj) == obj = None /\ (new_x \/ reads_obj)

Zeros(n) == [i \in 1..n |-> 0]

RECURSIVE GradLoop(_, _, _, _, _)
GradNext(c, e, vs, i, grad) ==
    Then(c, GradLoop(c.num, e, vs, i + 1, [grad EXCEPT ![vindex[vs[i]] + 1] = c.r]))

\* grad_f[v->index] = obj->expr->ad(*v, false) for v in obj->expr->get_vars()
GradLoop(nm, e, vs, i, grad) ==
    IF i > Len(vs) THEN [num |-> nm, r |-> grad]
    ELSE GradNext(ad(nm, e, vs[i], FALSE), e, vs, i, grad)

RECURSIVE GLoop(_, _, _, _)
\* g[i] = con->expr->value
GLoop(nm, cs, i, g) ==
    IF i > Len(cs) THEN g
    ELSE GLoop(nm, cs, i + 1, Append(g, nm[expr[cs[i]]].value))

RECURSIVE JacPattern(_, _, _, _)
\* eval_jac_g, values == NULL
JacPattern(cs, ci, vi, acc) ==
    IF ci > Len(cs) THEN acc
    ELSE IF vi > Len(get_vars(expr[cs[ci]])) THEN JacPattern(cs, ci + 1, 1, acc)
    ELSE Then(acc, JacPattern(cs, ci, vi + 1,
              [iRow |-> Append(acc.iRow, cindex[cs[ci]]),
               jCol |-> Append(acc.jCol, vindex[get_vars(expr[cs[ci]])[vi]]),
               pairs |-> Append(acc.pairs, <<cs[ci], get_vars(expr[cs[ci]])[vi]>>)]))

RECURSIVE JacValues(_, _, _, _, _)
JacValuesNext(c, cs, ci, vi, acc) ==
    Then(c, JacValues(c.num, cs, ci, vi + 1,
                      [values |-> Append(acc.values, c.r),
                       pairs |-> Append(acc.pairs,
                                        <<cs[ci], get_vars(expr[cs[ci]])[vi]>>)]))

\* a value loop that walks each constraint's variables from the last to the
\* first while the pattern loop walks them from the first to the last
JacValuesBackwards(nm, cs, ci, vi, acc) ==
    IF ci > Len(cs) THEN [num |-> nm, r |-> acc]
    ELSE IF vi > Len(get_vars(expr[cs[ci]])) THEN JacValues(nm, cs, ci + 1, 1, acc)
    ELSE JacValuesNext(ad(nm, expr[cs[ci]],
                          get_vars(expr[cs[ci]])[Len(get_vars(expr[cs[ci]])) - vi + 1],
                          FALSE),
                       cs, ci, vi, acc)

\* eval_jac_g, values != NULL, after the new_x block
JacValues(nm, cs, ci, vi, acc) ==
    IF ci > Len(cs) THEN [num |-> nm, r |-> acc]
    ELSE IF vi > Len(get_vars(expr[cs[ci]])) THEN JacValues(nm, cs, ci + 1, 1, acc)
    ELSE JacValuesNext(ad(nm, expr[cs[ci]], get_vars(expr[cs[ci]])[vi], FALSE),
                       cs, ci, vi, acc)

NoOutput == [values |-> <<>>, pairs |-> <<>>]
NoCells == [iRow |-> <<>>, jCol |-> <<>>, pairs |-> <<>>]


RECURSIVE HessPattern(_, _, _, _, _)
\* a pattern call that stops after the first row of the map
HessPatternFirstRow(hm, rows, ri, ci, acc) ==
    IF ri > 1 \/ ri > Len(rows) THEN acc
    ELSE IF ci > Len(InAddressOrder(DOMAIN hm[rows[ri]]))
         THEN HessPattern(hm, rows, ri + 1, 1, acc)
    ELSE Then(acc, HessPattern(hm, rows, ri, ci + 1,
              [iRow |-> Append(acc.iRow, vindex[rows[ri]]),
               jCol |-> Append(acc.jCol,
                               vindex[InAddressOrder(DOMAIN hm[rows[ri]])[ci]]),
               pairs |-> Append(acc.pairs,
                         <<rows[ri], InAddressOrder(DOMAIN hm[rows[ri]])[ci]>>)]))

\* eval_h, values == NULL
HessPattern(hm, rows, ri, ci, acc) ==
    IF ri > Len(rows) THEN acc
    ELSE IF ci > Len(InAddressOrder(DOMAIN hm[rows[ri]]))
         THEN HessPattern(hm, rows, ri + 1, 1, acc)
    ELSE Then(acc, HessPattern(hm, rows, ri, ci + 1,
              [iRow |-> Append(acc.iRow, vindex[rows[ri]]),
               jCol |-> Append(acc.jCol,
                               vindex[InAddressOrder(DOMAIN hm[rows[ri]])[ci]]),
               pairs |-> Append(acc.pairs,
                         <<rows[ri], InAddressOrder(DOMAIN hm[rows[ri]])[ci]>>)]))

\* obj_factor for an objective, lambda[con->index] for a constraint
Weight(c, obj_factor, lambda, junk) ==
    IF c \in Objectives THEN obj_factor
    ELSE IF cindex[c] + 1 \in DOMAIN lambda THEN lambda[cindex[c] + 1]
    ELSE junk

RECURSIVE CellSum(_, _, _, _, _, _, _, _, _)
CellSumNext(c, comps, i, v1, v2, obj_factor, lambda, junk, acc) ==
    Then(c, CellSum(c.num, comps, i + 1, v1, v2, obj_factor, lambda, junk,
                    acc + Weight(comps[i], obj_factor, lambda, junk) * c.r))

\* values[i] = 0, then += over col.second["obj"] and col.second["cons"]
CellSum(nm, comps, i, v1, v2, obj_factor, lambda, junk, acc) ==
    IF i > Len(comps) THEN [num |-> nm, r |-> acc]
    ELSE CellSumNext(ad2(nm, expr[comps[i]], v1, v2, FALSE),
                     comps, i, v1, v2, obj_factor, lambda, junk, acc)

CellComps(col) == InAddressOrder(col.obj) \o InAddressOrder(col.cons)

RECURSIVE HessValues(_, _, _, _, _, _, _, _, _)
HessValuesNext(c, hm, rows, ri, ci, obj_factor, lambda, junk, acc) ==
    Then(c, HessValues(c.num, hm, rows, ri, ci + 1, obj_factor, lambda, junk,
              [values |-> Append(acc.values, c.r),
               pairs |-> Append(acc.pairs,
                         <<rows[ri], InAddressOrder(DOMAIN hm[rows[ri]])[ci]>>)]))

\* eval_h, values != NULL, after the new_x and new_lambda blocks
HessValues(nm, hm, rows, ri, ci, obj_factor, lambda, junk, acc) ==
    IF ri > Len(rows) THEN [num |-> nm, r |-> acc]
    ELSE IF ci > Len(InAddressOrder(DOMAIN hm[rows[ri]]))
         THEN HessValues(nm, hm, rows, ri + 1, 1, obj_factor, lambda, junk, acc)
    ELSE HessValuesNext(
           CellSum(nm, CellComps(hm[rows[ri]][InAddressOrder(DOMAIN hm[rows[ri]])[ci]]),
                   1, rows[ri], InAddressOrder(DOMAIN hm[rows[ri]])[ci],
                   obj_factor, lambda, junk, 0),
           hm, rows, ri, ci, obj_factor, lambda, junk, acc)

RECURSIVE SumVars(_, _)
\* nnz_jac_g += con->expr->get_vars()->size()
SumVars(cs, i) ==
    IF i > Len(cs) THEN 0 ELSE Len(get_vars(expr[cs[i]])) + SumVars(cs, i + 1)

RECURSIVE SetDuals(_, _, _, _, _)
\* for (auto &con : cons) con->dual = lambda[con->index];
SetDuals(d, cs, i, lambda, junk) ==
    IF i > Len(cs) THEN d
    ELSE SetDuals([d EXCEPT ![cs[i]] = Weight(cs[i], 0, lambda, junk)],
                  cs, i + 1, lambda, junk)

Lambdas == {SubSeq(l, 1, Len(cons)) : l \in LambdaPoints}

registry == <<flags, vindex, ipoptVars, usetVars, condVars, evalVars, wmVars, csrVars, buildVars,
              solves>>

\* stands for the 1.0e20 of the default bounds
Infinity == 100

MaxSolves == 1
MaxCalls == 2

\* one more value callback in this solve
Called == calls < MaxCalls /\ calls' = calls + 1

Crash ==
    /\ pc' = "crashed"
    /\ UNCHANGED <<registry, num, dual, var_duals, solver_status, info, pat, out,
                   installed>>

\* the value callbacks leave r.num behind and hand r.r to the solver
Returned(op, x, new_x, args, r) ==
    /\ num' = r.num
    /\ out' = [op |-> op, new_x |-> new_x, args |-> args,
               values |-> r.r.values, pairs |-> r.r.pairs]
    /\ installed' = IF new_x THEN x ELSE installed
    /\ UNCHANGED <<registry, var_duals, solver_status, pc, info, pat>>

solve ==
    /\ pc = "idle"
    /\ AllRegistered
    /\ solves' = solves + 1
    /\ pc' = "info"
    /\ UNCHANGED <<flags, vindex, ipoptVars, usetVars, condVars, evalVars, wmVars, csrVars,
                   buildVars, num, dual, var_duals,
                   solver_status, info, pat, out, calls, installed>>

\* the entries for which the assert in get_nlp_info fails
EmptyEntries(hm) ==
    {k \in Keys(hm) : hm[k[1]][k[2]].cons = {} /\ hm[k[1]][k[2]].obj = {}}

\* an assert that looks the entries up from the rows, as
\* hessian_map[row.first][row.first] would
AssertReadsDiagonal(hm) == [v1 \in DOMAIN hm |-> Touch(hm, v1, v1)[v1]]

\* the map after the assert has read col.second["cons"] and
\* col.second["obj"] of every entry: operator[] of the innermost map
\* leaves each entry with both sets
AssertReads(hm) ==
    [v1 \in DOMAIN hm |->
        [v2 \in DOMAIN hm[v1] |->
            [obj |-> hm[v1][v2].obj, cons |-> hm[v1][v2].cons]]]

\* a failed assert aborts the process, unless the build has NDEBUG
get_nlp_info ==
    /\ pc = "info"
    /\ \/ /\ EmptyEntries(hessian_map) # {}
          /\ pc' = "assert_failed"
          /\ UNCHANGED info
       \/ /\ pc' = "bounds"
          /\ info' = <<[n |-> Len(vars), m |-> Len(cons),
                        nnz_jac_g |-> SumVars(cons, 1),
                        nnz_h_lag |-> Cardinality(Keys(hessian_map))]>>
    /\ hessian_map' = AssertReads(hessian_map)
    /\ UNCHANGED <<flags, vindex, cindex, vars, cons, obj, usetVars, condVars,
                   evalVars, wmVars, csrVars, buildVars, solves, num, dual, var_duals, solver_status,
                   pat, out, calls, installed>>

\* Var::lb, Constraint::lb and Var::ub, Constraint::ub as constructed
lb(a) == -Infinity
ub(a) == Infinity

\* the array a loop over a list fills by list position
ByPosition(list, f(_)) == [i \in 1..Len(list) |-> f(list[i])]

get_bounds_info ==
    /\ pc = "bounds"
    /\ pc' = "start"
    /\ out' = [NoCall EXCEPT !.op = "get_bounds_info",
                             !.values = <<ByPosition(vars, lb), ByPosition(vars, ub),
                                          ByPosition(cons, lb), ByPosition(cons, ub)>>]
    /\ UNCHANGED <<registry, num, dual, var_duals, solver_status, info, pat, calls,
                   installed>>

\* an array whose init flag is false is not written
get_starting_point(init_x, init_z, init_lambda) ==
    /\ pc = "start"
    /\ pc' = "jac_structure"
    /\ out' = [NoCall EXCEPT !.op = "get_starting_point",
                  !.args = <<init_x, init_z, init_lambda>>,
                  !.values =
                     <<IF init_x THEN ByPosition(vars, LAMBDA v : num[v].value)
                                 ELSE <<>>,
                       IF init_z THEN ByPosition(vars, LAMBDA v : var_duals[v][1])
                                 ELSE <<>>,
                       IF init_z THEN ByPosition(vars, LAMBDA v : var_duals[v][2])
                                 ELSE <<>>,
                       IF init_lambda THEN ByPosition(cons, LAMBDA c : dual[c])
                                      ELSE <<>> >>]
    /\ UNCHANGED <<registry, num, dual, var_duals, solver_status, info, pat, calls,
                   installed>>

eval_f(x, new_x) ==
    /\ pc = "iterate"
    /\ Called
    /\ IF NullObj(new_x, TRUE) THEN Crash
       ELSE /\ Returned("eval_f", x, new_x, <<>>,
                  [num |-> NewX(num, x, new_x),
                   r |-> [values |-> <<NewX(num, x, new_x)[expr[obj]].value>>,
                          pairs |-> <<>>]])
            /\ UNCHANGED dual

eval_grad_f(x, new_x) ==
    /\ pc = "iterate"
    /\ Called
    /\ IF NullObj(new_x, TRUE) THEN Crash
       ELSE /\ Returned("eval_grad_f", x, new_x, <<>>,
                  [num |-> GradLoop(NewX(num, x, new_x), expr[obj],
                                    get_vars(expr[obj]), 1, Zeros(Len(x))).num,
                   r |-> [values |-> GradLoop(NewX(num, x, new_x), expr[obj],
                                    get_vars(expr[obj]), 1, Zeros(Len(x))).r,
                          pairs |-> <<>>]])
            /\ UNCHANGED dual

eval_g(x, new_x) ==
    /\ pc = "iterate"
    /\ Called
    /\ IF NullObj(new_x, FALSE) THEN Crash
       ELSE /\ Returned("eval_g", x, new_x, <<>>,
                  [num |-> NewX(num, x, new_x),
                   r |-> [values |-> GLoop(NewX(num, x, new_x), cons, 1, <<>>),
                          pairs |-> <<>>]])
            /\ UNCHANGED dual

eval_jac_g(x, new_x, pattern_mode) ==
    /\ IF pattern_mode
       THEN /\ pc = "jac_structure"
            /\ pc' = "h_structure"
            /\ pat' = [pat EXCEPT !.jac = <<JacPattern(cons, 1, 1, NoCells)>>]
            /\ UNCHANGED <<registry, num, dual, var_duals, solver_status, info, out, calls,
                           installed>>
       ELSE /\ pc = "iterate"
            /\ Called
            /\ IF NullObj(new_x, FALSE) THEN Crash
               ELSE /\ Returned("eval_jac_g", x, new_x, <<>>,
                         JacValues(NewX(num, x, new_x), cons, 1, 1, NoOutput))
                    /\ UNCHANGED dual

eval_h(x, new_x, obj_factor, lambda, new_lambda, junk, pattern_mode) ==
    /\ IF pattern_mode
       THEN /\ pc = "h_structure"
            /\ pc' = "iterate"
            /\ pat' = [pat EXCEPT !.h = <<HessPattern(hessian_map,
                           InAddressOrder(DOMAIN hessian_map), 1, 1, NoCells)>>]
            /\ UNCHANGED <<registry, num, dual, var_duals, solver_status, info, out, calls,
                           installed>>
       ELSE /\ pc = "iterate"
            /\ Called
            /\ IF NullObj(new_x, FALSE) THEN Crash
               ELSE /\ dual' = IF new_lambda
                                THEN SetDuals(dual, cons, 1, lambda, junk) ELSE dual
                    /\ Returned("eval_h", x, new_x, <<obj_factor, lambda, junk>>,
                         HessValues(NewX(num, x, new_x), hessian_map,
                                    InAddressOrder(DOMAIN hessian_map), 1, 1,
                                    obj_factor, lambda, junk, NoOutput))

\* a chain that tells success from failure only
StatusSuccessOrNot(status) ==
    IF status = "SUCCESS" THEN "SUCCESS" ELSE "UNKNOWN"

\* the if / else if chain over the status
StatusString(status) ==
    CASE status = "SUCCESS" -> "SUCCESS"
      [] status = "MAXITER_EXCEEDED" -> "MAXITER_EXCEEDED"
      [] status = "CPUTIME_EXCEEDED" -> "CPUTIME_EXCEEDED"
      [] status = "STOP_AT_TINY_STEP" -> "STOP_AT_TINY_STEP"
      [] status = "STOP_AT_ACCEPTABLE_POINT" -> "STOP_AT_ACCEPTABLE_POINT"
      [] status = "LOCAL_INFEASIBILITY" -> "LOCAL_INFEASIBILITY"
      [] status = "USER_REQUESTED_STOP" -> "USER_REQUESTED_STOP"
      [] status = "DIVERGING_ITERATES" -> "DIVERGING_ITERATES"
      [] status = "RESTORATION_FAILURE" -> "RESTORATION_FAILURE"
      [] status = "ERROR_IN_STEP_COMPUTATION" -> "ERROR_IN_STEP_COMPUTATION"
      [] status = "INVALID_NUMBER_DETECTED" -> "INVALID_NUMBER_DETECTED"
      [] status = "INTERNAL_ERROR" -> "INTERNAL_ERROR"
      [] OTHER -> "UNKNOWN"

finalize_solution(status, x, z_L, z_U, lambda) ==
    /\ pc = "iterate"
    /\ solver_status' = StatusString(status)
    /\ num' = InstallX(num, vars, x, 1)
    /\ var_duals' = [v \in Vars |-> <<z_L[vindex[v] + 1], z_U[vindex[v] + 1]>>]
    /\ dual' = SetDuals(dual, cons, 1, lambda, 0)
    /\ pc' = "idle"
    /\ info' = <<>>
    /\ pat' = NoPattern
    /\ out' = [NoCall EXCEPT !.op = "finalize_solution",
                             !.args = <<status, x, z_L, z_U, lambda>>]
    /\ calls' = 0
    /\ installed' = <<>>
    /\ UNCHANGED registry

NLPOrders == {<<"y", "w", "u", "x">>}

\* the model after add_var has been called for every variable
InitNLP ==
    /\ \E s \in NLPOrders :
          /\ vars = s
          /\ vindex = PositionIndex(s, [v \in Vars |-> -1], 1)
    /\ flags = [n \in NodeIds |-> NoFlags]
    /\ cindex = [c \in Constraints |-> -1]
    /\ cons = <<>>
    /\ obj = None
    /\ hessian_map = EmptyMap
    /\ USetInit
    /\ NLPInit
    /\ CondInit
    /\ EvalInit
    /\ WmInit /\ CsrInit
    /\ BuildInit

\* (init_x, init_z, init_lambda) of a cold and of a warm start
StartFlags == {<<TRUE, FALSE, FALSE>>, <<TRUE, TRUE, TRUE>>}

\* the model is followed up to the return of the MaxSolves-th solve
NLPNext ==
    \/ /\ solves < MaxSolves
       /\ \/ \E c \in Constraints : add_constraint(c)
          \/ \E c \in Constraints : remove_constraint(c)
          \/ \E o \in Objectives : set_objective(o)
          \/ solve
    \/ get_nlp_info
    \/ get_bounds_info
    \/ \E init \in StartFlags : get_starting_point(init[1], init[2], init[3])
    \/ \E x \in XPoints, new_x \in BOOLEAN : eval_f(x, new_x)
    \/ \E x \in XPoints, new_x \in BOOLEAN : eval_grad_f(x, new_x)
    \/ \E x \in XPoints, new_x \in BOOLEAN : eval_g(x, new_x)
    \/ \E x \in XPoints, new_x \in BOOLEAN, mode \in BOOLEAN :
          eval_jac_g(x, new_x, mode)
    \/ \E x \in XPoints, new_x \in BOOLEAN, f \in ObjFactors, l \in Lambdas,
          new_lambda \in BOOLEAN, junk \in JunkRead, mode \in BOOLEAN :
          eval_h(x, new_x, f, l, new_lambda, junk, mode)
    \/ \E st \in Statuses, x \in FinalPoints, z_L \in ZLPoints, z_U \in ZUPoints,
          l \in Lambdas :
          finalize_solution(st, x, z_L, z_U, l)

SpecNLP == InitNLP /\ [][NLPNext]_allVars


\* C3: for a fixed model state the pattern call and the value call of
\* eval_jac_g visit the same (constraint, variable) pairs in the same order;
\* position k of the pattern call holds (c.index, v.index) of pair k and
\* position k of the value call holds c.ad(v, false) for that pair; both
\* write nnz_jac_g entries, the sum over the constraints of |c.vars()|.
C3_JacobianModesAgree ==
    (out.op = "eval_jac_g" /\ pat.jac # <<>> /\ info # <<>>) =>
        /\ out.pairs = pat.jac[1].pairs
        /\ Len(out.values) = info[1].nnz_jac_g
        /\ Len(pat.jac[1].iRow) = info[1].nnz_jac_g
        /\ Len(pat.jac[1].jCol) = info[1].nnz_jac_g
        /\ info[1].nnz_jac_g =
              Cardinality({<<c, v>> \in Range(cons) \X Vars :
                              v \in Range(get_vars(expr[c]))})
        /\ \A k \in 1..Len(out.values) :
              /\ pat.jac[1].iRow[k] = cindex[pat.jac[1].pairs[k][1]]
              /\ pat.jac[1].jCol[k] = vindex[pat.jac[1].pairs[k][2]]
              /\ out.values[k] = ad(num, expr[pat.jac[1].pairs[k][1]],
                                    pat.jac[1].pairs[k][2], FALSE).r

\* both constraints registered, the later one first, and a value call made
C3_Witness ==
    /\ out.op = "eval_jac_g" /\ pat.jac # <<>> /\ info # <<>>
    /\ cons = <<"c2", "c1">>
    /\ Len(out.values) = 6
    /\ \A k \in 1..6 : out.values[k] # 0

\* the callbacks that take new_x, called with new_x = false
CallbackWithoutNewX ==
    \E x \in XPoints :
        \/ eval_f(x, FALSE)
        \/ eval_grad_f(x, FALSE)
        \/ eval_g(x, FALSE)
        \/ eval_jac_g(x, FALSE, FALSE)
        \/ \E f \in ObjFactors, l \in Lambdas, nl \in BOOLEAN, junk \in JunkRead :
              eval_h(x, FALSE, f, l, nl, junk, FALSE)

\* what the last callback would have written had it been called with
\* new_x = true and the installed x
Fresh ==
    CASE out.op = "eval_f" ->
            <<NewX(num, installed, TRUE)[expr[obj]].value>>
      [] out.op = "eval_grad_f" ->
            GradLoop(NewX(num, installed, TRUE), expr[obj], get_vars(expr[obj]),
                     1, Zeros(Len(installed))).r
      [] out.op = "eval_g" -> GLoop(NewX(num, installed, TRUE), cons, 1, <<>>)
      [] out.op = "eval_jac_g" ->
            JacValues(NewX(num, installed, TRUE), cons, 1, 1, NoOutput).r.values
      [] out.op = "eval_h" ->
            HessValues(NewX(num, installed, TRUE), hessian_map,
                       InAddressOrder(DOMAIN hessian_map), 1, 1,
                       out.args[1], out.args[2], out.args[3], NoOutput).r.values

\* C10: a callback called with new_x = false changes no Var value and no
\* expression value, and what it hands to the solver is computed from the
\* values installed by the most recent callback that had new_x = true.
C10_NoReevaluationWithoutNewX ==
    /\ [][CallbackWithoutNewX =>
             \A n \in NodeIds : num'[n].value = num[n].value]_allVars
    /\ [](installed # <<>> =>
             /\ \A v \in Vars : num[v].value = installed[vindex[v] + 1]
             /\ (pc = "iterate" /\ ~out.new_x) => out.values = Fresh)

\* a gradient asked for with new_x = false after values were installed
C10_Witness ==
    /\ pc = "iterate" /\ ~out.new_x /\ installed # <<>>
    /\ out.op = "eval_grad_f"
    /\ obj = "o1"
    /\ \E k \in 1..Len(out.values) : out.values[k] # 0

NamedStatuses ==
    {"SUCCESS", "MAXITER_EXCEEDED", "CPUTIME_EXCEEDED", "STOP_AT_TINY_STEP",
     "STOP_AT_ACCEPTABLE_POINT", "LOCAL_INFEASIBILITY", "USER_REQUESTED_STOP",
     "DIVERGING_ITERATES", "RESTORATION_FAILURE", "ERROR_IN_STEP_COMPUTATION",
     "INVALID_NUMBER_DETECTED", "INTERNAL_ERROR"}

\* the model as finalize_solution(status, x, z_L, z_U, lambda) must leave it,
\* the arguments being those recorded in out.args
Finalized ==
    /\ solver_status \in NamedStatuses \cup {"UNKNOWN"}
    /\ solver_status = IF out.args[1] \in NamedStatuses THEN out.args[1] ELSE "UNKNOWN"
    /\ \A v \in Range(vars) :
          /\ num[v].value = out.args[2][vindex[v] + 1]
          /\ var_duals[v] = <<out.args[3][vindex[v] + 1], out.args[4][vindex[v] + 1]>>
    /\ \A c \in Range(cons) : dual[c] = out.args[5][cindex[c] + 1]

\* C11: finalize_solution, for every solver return status, sets
\* solver_status to the name of the status when it is one of the twelve
\* named ones and to "UNKNOWN" otherwise, and then writes x, z_L, z_U into
\* every registered Var and lambda into every constraint's dual.
C11_FinalizeWritesBack ==
    [][(pc = "iterate" /\ pc' = "idle") =>
          (out.op = "finalize_solution" /\ Finalized)']_allVars

\* a solve with both constraints that ended with a status outside the
\* named list
C11_Witness ==
    /\ out.op = "finalize_solution" /\ pc = "idle"
    /\ out.args[1] = "OUT_OF_MEMORY" /\ solver_status = "UNKNOWN"
    /\ Len(cons) = 2
    /\ dual["c1"] # dual["c2"]
    /\ num["x"].value = 3 /\ var_duals["x"] = <<0, 1>>

\* the place of an object in the order of the pointer keyed containers
AddressRank(a) == CHOOSE i \in DOMAIN AddressOrder : AddressOrder[i] = a

\* cell j comes before cell k in the iteration order of hessian_map
MapOrdered(p, q) ==
    \/ AddressRank(p[1]) < AddressRank(q[1])
    \/ p[1] = q[1] /\ AddressRank(p[2]) < AddressRank(q[2])

\* C14: the pattern call of eval_h emits one cell (v1.index, v2.index) per
\* key of hessian_map, in the iteration order of the map (rows and, within
\* a row, columns ordered by the Var pointers); the value call emits the
\* same cells in the same order; both emit nnz_h_lag cells.
C14_HessianModesAgree ==
    (pat.h # <<>> /\ info # <<>>) =>
        /\ Len(pat.h[1].pairs) = info[1].nnz_h_lag
        /\ Len(pat.h[1].iRow) = info[1].nnz_h_lag
        /\ Len(pat.h[1].jCol) = info[1].nnz_h_lag
        /\ Range(pat.h[1].pairs) = Keys(hessian_map)
        /\ \A k \in 1..Len(pat.h[1].pairs) :
              /\ pat.h[1].iRow[k] = vindex[pat.h[1].pairs[k][1]]
              /\ pat.h[1].jCol[k] = vindex[pat.h[1].pairs[k][2]]
              /\ \A j \in 1..(k - 1) :
                    MapOrdered(pat.h[1].pairs[j], pat.h[1].pairs[k])
        /\ out.op = "eval_h" =>
              /\ out.pairs = pat.h[1].pairs
              /\ Len(out.values) = info[1].nnz_h_lag

\* the statement with the order by index: rows by ascending v1.index and,
\* within a row, columns by ascending v2.index
C14_CellsInIndexOrder ==
    pat.h # <<>> =>
        \A k \in 1..Len(pat.h[1].iRow) : \A j \in 1..(k - 1) :
            \/ pat.h[1].iRow[j] < pat.h[1].iRow[k]
            \/ /\ pat.h[1].iRow[j] = pat.h[1].iRow[k]
               /\ pat.h[1].jCol[j] < pat.h[1].jCol[k]

\* a value call after a pattern call on a map with several rows, one of
\* them with several columns
C14_Witness ==
    /\ pat.h # <<>> /\ info # <<>> /\ out.op = "eval_h"
    /\ Len(out.values) >= 4
    /\ Cardinality(DOMAIN hessian_map) >= 2
    /\ \E v \in DOMAIN hessian_map : Cardinality(DOMAIN hessian_map[v]) >= 2

\* the callbacks the solver makes between the start of a solve and
\* finalize_solution
SolverCallback ==
    \/ get_nlp_info
    \/ get_bounds_info
    \/ \E init \in StartFlags : get_starting_point(init[1], init[2], init[3])
    \/ \E x \in XPoints, new_x \in BOOLEAN :
          \/ eval_f(x, new_x)
          \/ eval_grad_f(x, new_x)
          \/ eval_g(x, new_x)
          \/ \E mode \in BOOLEAN : eval_jac_g(x, new_x, mode)
          \/ \E f \in ObjFactors, l \in Lambdas, nl \in BOOLEAN, junk \in JunkRead,
                mode \in BOOLEAN : eval_h(x, new_x, f, l, nl, junk, mode)

C17_NoHasAdMeansZeroAd ==
    \A r \in Roots : \A v \in Vars :
        ~has_ad(flags, r, v).r => ad(num, r, v, TRUE).r = 0

\* C12: in every reachable state of the model every key (v1, v2) of
\* hessian_map has a contributor in "obj" or in "cons" and no row is empty,
\* so the assert in get_nlp_info never fails and nnz_h_lag is the number
\* of keys that have a contributor.
C12_NoEmptyEntries ==
    /\ EmptyEntries(hessian_map) = {}
    /\ \A v1 \in DOMAIN hessian_map : DOMAIN hessian_map[v1] # {}
    /\ pc # "assert_failed"
    /\ info # <<>> =>
          info[1].nnz_h_lag =
              Cardinality({k \in Vars \X Vars :
                              Contributors(hessian_map, k[1], k[2], "obj")
                                 \cup Contributors(hessian_map, k[1], k[2], "cons") # {}})

\* a constraint was added and removed again beside another component, and
\* the solver was then told the number of Hessian entries
C12_Witness ==
    /\ info # <<>> /\ info[1].nnz_h_lag > 0
    /\ Len(cons) = 1 /\ obj # None
    /\ \E c \in Constraints \ Range(cons) : flags[expr[c]] # NoFlags


(***************************************************************************)
(* ConditionalConstraint: a ladder of (condition, expression) pairs and a  *)
(* trailing expression.                                                    *)
(***************************************************************************)
MaxConditions == 2
MaxCcSteps == 3

CcStep == cc_steps < MaxCcSteps /\ cc_steps' = cc_steps + 1
ConditionNodes == {"Cx", "Cy"}
BranchNodes == {"e", "R"}
\* values given to x and y between calls
ValuePoints == {<<3, 1>>, <<2, 3>>, <<3, 3>>}

notCond == <<vindex, ipoptVars, usetVars, evalVars, wmVars, csrVars, buildVars, dual, var_duals,
             solver_status, pc, info, pat, out, solves, calls, installed>>

RECURSIVE SelectBranch(_, _, _)
SelectNext(c, conds, i) ==
    IF c.r <= 0 THEN [num |-> c.num, r |-> i]
    ELSE SelectBranch(c.num, conds, i + 1)

\* a ladder that takes a branch only when its condition is below 0
SelectBelow(nm, conds, i) ==
    IF i > Len(conds) THEN [num |-> nm, r |-> i]
    ELSE IF evaluate(nm, conds[i]).r < 0
         THEN [num |-> evaluate(nm, conds[i]).num, r |-> i]
    ELSE SelectBranch(evaluate(nm, conds[i]).num, conds, i + 1)

\* the while loop of evaluate / ad / ad2: the position expr_iter stops at
SelectBranch(nm, conds, i) ==
    IF i > Len(conds) THEN [num |-> nm, r |-> i]
    ELSE SelectNext(evaluate(nm, conds[i]), conds, i)

add_condition(condition, e) ==
    /\ cc_pc = "ok"
    /\ Len(condition_exprs) < MaxConditions
    /\ Len(exprs) <= MaxConditions
    /\ condition_exprs' = Append(condition_exprs, condition)
    /\ exprs' = Append(exprs, e)
    /\ cc_out' = NoCcCall
    /\ UNCHANGED <<flags, num, cc_pc, cc_steps, notCond>>

add_final_expr(e) ==
    /\ cc_pc = "ok"
    /\ Len(exprs) <= MaxConditions
    /\ exprs' = Append(exprs, e)
    /\ cc_out' = NoCcCall
    /\ UNCHANGED <<flags, num, condition_exprs, cc_pc, cc_steps, notCond>>

\* x.value = ...; y.value = ...
set_values(p) ==
    /\ cc_pc = "ok"
    /\ CcStep
    /\ num' = [num EXCEPT !["x"].value = p[1], !["y"].value = p[2]]
    /\ cc_out' = NoCcCall
    /\ UNCHANGED <<flags, condition_exprs, exprs, cc_pc, notCond>>

\* *expr_iter with expr_iter == exprs.end(): the call crashes or returns
\* whatever the object found there computes
PastTheEnd(op, n1, n2, new_eval, branch, results) ==
    /\ \/ /\ cc_pc' = "crashed"
          /\ cc_out' = [op |-> op, n1 |-> n1, n2 |-> n2, new_eval |-> new_eval,
                        branch |-> branch, r |-> CHOOSE r \in results : TRUE]
       \/ /\ \E r \in results :
                cc_out' = [op |-> op, n1 |-> n1, n2 |-> n2, new_eval |-> new_eval,
                           branch |-> branch, r |-> r]
          /\ UNCHANGED cc_pc
    /\ UNCHANGED <<condition_exprs, exprs, notCond>>

\* (*expr_iter)->evaluate() / ad(n, new_eval) / ad2(n1, n2, new_eval) on the
\* branch s.r the loop stopped at
CallBranch(mth, s, n1, n2, new_eval) ==
    IF s.r > Len(exprs)
    THEN /\ num' = s.num
         /\ PastTheEnd(mth, n1, n2, new_eval, s.r, Junk)
    ELSE /\ num' = Call(mth, s.num, exprs[s.r], n1, n2, new_eval).num
         /\ cc_out' = [op |-> mth, n1 |-> n1, n2 |-> n2, new_eval |-> new_eval,
                       branch |-> s.r,
                       r |-> Call(mth, s.num, exprs[s.r], n1, n2, new_eval).r]
         /\ UNCHANGED <<condition_exprs, exprs, cc_pc, notCond>>

conditional_evaluate ==
    /\ cc_pc = "ok"
    /\ CcStep
    /\ CallBranch("evaluate", SelectBranch(num, condition_exprs, 1), None, None, FALSE)
    /\ UNCHANGED flags

conditional_ad(n, new_eval) ==
    /\ cc_pc = "ok"
    /\ CcStep
    /\ CallBranch("ad", SelectBranch(num, condition_exprs, 1), n, None, new_eval)
    /\ UNCHANGED flags

conditional_ad2(n1, n2, new_eval) ==
    /\ cc_pc = "ok"
    /\ CcStep
    /\ CallBranch("ad2", SelectBranch(num, condition_exprs, 1), n1, n2, new_eval)
    /\ UNCHANGED flags

RECURSIVE AnyHasAd2(_, _, _, _, _)
AnyHasAd2Next(h, es, i, n1, n2) ==
    IF h.r THEN h ELSE AnyHasAd2(h.fl, es, i + 1, n1, n2)

\* the while loop of has_ad2: true as soon as a branch answers true
AnyHasAd2(fl, es, i, n1, n2) ==
    IF i > Len(es) THEN [fl |-> fl, r |-> FALSE]
    ELSE AnyHasAd2Next(has_ad2(fl, es[i], n1, n2), es, i, n1, n2)

\* after the loop the code calls (*expr_iter)->has_ad2 with expr_iter at
\* exprs.end()
HasAd2Returned(h, n1, n2) ==
    /\ flags' = h.fl
    /\ IF h.r
       THEN /\ cc_out' = [op |-> "has_ad2", n1 |-> n1, n2 |-> n2, new_eval |-> FALSE,
                          branch |-> 0, r |-> TRUE]
            /\ UNCHANGED <<condition_exprs, exprs, cc_pc, notCond>>
       ELSE PastTheEnd("has_ad2", n1, n2, FALSE, Len(exprs) + 1, BOOLEAN)

conditional_has_ad2(n1, n2) ==
    /\ cc_pc = "ok"
    /\ CcStep
    /\ HasAd2Returned(AnyHasAd2(flags, exprs, 1, n1, n2), n1, n2)
    /\ UNCHANGED num

CondVars == {"x", "y"}

CondNext ==
    \/ \E c \in ConditionNodes, e \in BranchNodes : add_condition(c, e)
    \/ \E e \in BranchNodes : add_final_expr(e)
    \/ \E p \in ValuePoints : set_values(p)
    \/ conditional_evaluate
    \/ \E n \in CondVars, ne \in BOOLEAN : conditional_ad(n, ne)
    \/ \E n1, n2 \in CondVars, ne \in BOOLEAN : conditional_ad2(n1, n2, ne)
    \/ \E n1, n2 \in CondVars : conditional_has_ad2(n1, n2)

SpecCond == Init /\ [][CondNext]_allVars


\* add_condition called k times and add_final_expr once
WellFormed == Len(exprs) = Len(condition_exprs) + 1

\* the least i with condition i <= 0 under the current values, else the
\* trailing branch
ActiveBranch ==
    CHOOSE i \in 1..(Len(condition_exprs) + 1) :
        /\ i <= Len(condition_exprs) => evaluate(num, condition_exprs[i]).r <= 0
        /\ \A j \in 1..(i - 1) : evaluate(num, condition_exprs[j]).r > 0

\* every node of the active branch holds the value of the current variables
BranchEvaluated == evaluate(num, exprs[ActiveBranch]).num = num

\* C4: evaluate returns the value of the first branch whose condition is
\* <= 0, or of the trailing branch when no condition is <= 0; ad and ad2
\* differentiate that same branch for the same variable values.
C4_FirstBranchSelected ==
    (WellFormed /\ cc_out.op \in {"evaluate", "ad", "ad2"}) =>
        /\ cc_pc = "ok"
        /\ cc_out.branch = ActiveBranch
        /\ cc_out.op = "evaluate" =>
              cc_out.r = evaluate(num, exprs[ActiveBranch]).r
        /\ (cc_out.op = "ad" /\ (cc_out.new_eval \/ BranchEvaluated)) =>
              cc_out.r = ad(num, exprs[ActiveBranch], cc_out.n1, TRUE).r
        /\ (cc_out.op = "ad2" /\ (cc_out.new_eval \/ BranchEvaluated)) =>
              cc_out.r = ad2(num, exprs[ActiveBranch], cc_out.n1, cc_out.n2, TRUE).r

\* two conditions, the first above 0 and the second at 0 or below, and a
\* second derivative taken of the second branch
C4_Witness ==
    /\ WellFormed /\ Len(condition_exprs) = 2
    /\ cc_out.op = "ad2" /\ cc_out.branch = 2 /\ cc_out.r # 0
    /\ evaluate(num, condition_exprs[2]).r = 0

\* C5: has_ad2 of the conditional completes normally and returns true
\* exactly when has_ad2 is true for at least one branch expression.
C5_HasAd2IsOrOfBranches ==
    (WellFormed /\ cc_out.op = "has_ad2") =>
        /\ cc_pc = "ok"
        /\ cc_out.r = (\E i \in 1..Len(exprs) :
                          has_ad2(flags, exprs[i], cc_out.n1, cc_out.n2).r)

\* ---------------------------------------------------------------------
\* ConditionalConstraint::rad (aml/component.cpp): reverse-mode
\* differentiation of the ladder
\* ---------------------------------------------------------------------

\* the while loop of rad: each condition is evaluated in turn and every
\* branch whose condition is <= 0 has its rad called; called is the list
\* of those branches, in the order of the calls
RECURSIVE RadLoop(_, _, _, _)
RadLoopNext(c, conds, i, called) ==
    RadLoop(c.num, conds, i + 1, IF c.r <= 0 THEN Append(called, i) ELSE called)

RadLoop(nm, conds, i, called) ==
    IF i > Len(conds) THEN [num |-> nm, called |-> called]
    ELSE RadLoopNext(evaluate(nm, conds[i]), conds, i, called)

\* `if (!found) (*expr_iter)->rad(new_eval);` with expr_iter behind the
\* last condition's branch
RadReturn(l, new_eval) ==
    /\ num' = l.num
    /\ IF l.called # <<>>
       THEN /\ cc_out' = [op |-> "rad", n1 |-> None, n2 |-> None,
                          new_eval |-> new_eval, branch |-> l.called[1],
                          r |-> l.called]
            /\ UNCHANGED <<condition_exprs, exprs, cc_pc, notCond>>
       ELSE IF Len(condition_exprs) + 1 > Len(exprs)
       THEN PastTheEnd("rad", None, None, new_eval, Len(condition_exprs) + 1,
                       {<<Len(condition_exprs) + 1>>})
       ELSE /\ cc_out' = [op |-> "rad", n1 |-> None, n2 |-> None,
                          new_eval |-> new_eval,
                          branch |-> Len(condition_exprs) + 1,
                          r |-> <<Len(condition_exprs) + 1>>]
            /\ UNCHANGED <<condition_exprs, exprs, cc_pc, notCond>>

ConditionalConstraint_rad(new_eval) ==
    /\ cc_pc = "ok"
    /\ CcStep
    /\ RadReturn(RadLoop(num, condition_exprs, 1, <<>>), new_eval)
    /\ UNCHANGED flags

CondRadNext ==
    \/ \E c \in ConditionNodes, e \in BranchNodes : add_condition(c, e)
    \/ \E e \in BranchNodes : add_final_expr(e)
    \/ \E p \in ValuePoints : set_values(p)
    \/ conditional_evaluate
    \/ \E ne \in BOOLEAN : ConditionalConstraint_rad(ne)

SpecCondRad == Init /\ [][CondRadNext]_allVars

\* C26: rad calls rad of exactly one branch, the one evaluate selects for
\* the same variable values: the first whose condition is <= 0, else the
\* trailing branch
C26_RadDifferentiatesOneBranch ==
    (WellFormed /\ cc_out.op = "rad") =>
        /\ cc_pc = "ok"
        /\ cc_out.r = <<ActiveBranch>>

\* ---------------------------------------------------------------------
\* The compiled evaluator (sim/aml): reverse Polish programs and CSR tables
\* ---------------------------------------------------------------------

ADD == -1
SUB == -2
MUL == -3
ABS == -6
SIGN == -7
IF_ELSE == -8
INEQUALITY == -9
NEGATION == -12

NewConstraint == [leaves |-> <<>>, fn_rpn |-> <<>>, jac_rpn |-> <<>>]

\* a std::map<Var*, T> is a function on the set of its keys; m[v] creates
\* the entry with an empty vector when v is not a key
At(map, v) == IF v \in DOMAIN map THEN map[v] ELSE <<>>

PushAt(map, v, e) ==
    [k \in DOMAIN map \cup {v} |-> IF k = v THEN Append(At(map, v), e) ELSE map[k]]

Constraint_add_leaf(c, leaf) == [c EXCEPT !.leaves = Append(@, leaf)]

Constraint_add_fn_rpn_term(c, term) == [c EXCEPT !.fn_rpn = Append(@, term)]

Constraint_add_jac_rpn_term(c, v, term) ==
    [c EXCEPT !.jac_rpn = PushAt(@, v, term)]

NewIfElseConstraint ==
    [leaves |-> <<>>, current_condition_rpn |-> <<>>, current_fn_rpn |-> <<>>,
     current_jac_rpn |-> <<>>, condition_rpn |-> <<>>, fn_rpn |-> <<>>,
     jac_rpn |-> <<>>]

IfElse_add_leaf(c, leaf) == [c EXCEPT !.leaves = Append(@, leaf)]

IfElse_add_condition_rpn_term(c, term) ==
    [c EXCEPT !.current_condition_rpn = Append(@, term)]

IfElse_add_fn_rpn_term(c, term) == [c EXCEPT !.current_fn_rpn = Append(@, term)]

IfElse_add_jac_rpn_term(c, v, term) ==
    [c EXCEPT !.current_jac_rpn = PushAt(@, v, term)]

\* the variables that have no program in the current branch get no vector
end_condition(c) ==
    [c EXCEPT !.condition_rpn = Append(@, c.current_condition_rpn),
              !.fn_rpn = Append(@, c.current_fn_rpn),
              !.jac_rpn = [k \in DOMAIN c.jac_rpn \cup DOMAIN c.current_jac_rpn |->
                              IF k \in DOMAIN c.current_jac_rpn
                              THEN Append(At(c.jac_rpn, k), c.current_jac_rpn[k])
                              ELSE c.jac_rpn[k]],
              !.current_condition_rpn = <<>>,
              !.current_fn_rpn = <<>>,
              !.current_jac_rpn = <<>>]

\* one builder call of the caller
BuildStep(c, call) ==
    CASE call[1] = "leaf" -> Constraint_add_leaf(c, call[2])
      [] call[1] = "fn"   -> Constraint_add_fn_rpn_term(c, call[2])
      [] call[1] = "jac"  -> Constraint_add_jac_rpn_term(c, call[2], call[3])

IfElseBuildStep(c, call) ==
    CASE call[1] = "leaf" -> IfElse_add_leaf(c, call[2])
      [] call[1] = "cond" -> IfElse_add_condition_rpn_term(c, call[2])
      [] call[1] = "fn"   -> IfElse_add_fn_rpn_term(c, call[2])
      [] call[1] = "jac"  -> IfElse_add_jac_rpn_term(c, call[2], call[3])
      [] call[1] = "end"  -> end_condition(c)

RECURSIVE Build(_, _, _)
Build(c, script, i) ==
    IF i > Len(script) THEN c ELSE Build(BuildStep(c, script[i]), script, i + 1)

RECURSIVE IfElseBuild(_, _, _)
IfElseBuild(c, script, i) ==
    IF i > Len(script) THEN c
    ELSE IfElseBuild(IfElseBuildStep(c, script[i]), script, i + 1)

\* the constraints the callers build: p1 is v1 * v2, p2 is v2 - one, and
\* p0 is a constraint as add_constraint returns it
PlainCalls ==
    [p0 |-> <<>>,
     p1 |-> << <<"leaf", "v1">>, <<"leaf", "v2">>,
               <<"fn", 0>>, <<"fn", 1>>, <<"fn", MUL>>,
               <<"jac", "v1", 1>>, <<"jac", "v2", 0>> >>,
     p2 |-> << <<"leaf", "v2">>, <<"leaf", "one">>,
               <<"fn", 0>>, <<"fn", 1>>, <<"fn", SUB>>,
               <<"jac", "v2", 1>> >>]

\* q1: if one <= v1 <= one then v1 * v2 else v1 + v2
\* q2: the same conditions, but v2 has a Jacobian program in the else
\*     branch only
\* q3: if one <= v1 <= one then v1, and no else branch
IfElseCalls ==
    [q1 |-> << <<"leaf", "v1">>, <<"leaf", "one">>, <<"leaf", "v2">>,
               <<"cond", 0>>, <<"cond", 1>>, <<"cond", 1>>, <<"cond", INEQUALITY>>,
               <<"fn", 0>>, <<"fn", 2>>, <<"fn", MUL>>,
               <<"jac", "v1", 2>>, <<"jac", "v2", 0>>, <<"end">>,
               <<"fn", 0>>, <<"fn", 2>>, <<"fn", ADD>>,
               <<"jac", "v1", 1>>, <<"jac", "v2", 1>>, <<"end">> >>,
     q2 |-> << <<"leaf", "v1">>, <<"leaf", "one">>, <<"leaf", "v2">>,
               <<"cond", 0>>, <<"cond", 1>>, <<"cond", 1>>, <<"cond", INEQUALITY>>,
               <<"fn", 0>>, <<"jac", "v1", 1>>, <<"end">>,
               <<"fn", 0>>, <<"fn", 2>>, <<"fn", ADD>>,
               <<"jac", "v1", 1>>, <<"jac", "v2", 1>>, <<"end">> >>,
     q3 |-> << <<"leaf", "v1">>, <<"leaf", "one">>,
               <<"cond", 0>>, <<"cond", 1>>, <<"cond", 1>>, <<"cond", INEQUALITY>>,
               <<"fn", 0>>, <<"jac", "v1", 1>>, <<"end">> >>]

Plain == [c \in DOMAIN PlainCalls |-> Build(NewConstraint, PlainCalls[c], 1)]

IfElse ==
    [c \in DOMAIN IfElseCalls |-> IfElseBuild(NewIfElseConstraint, IfElseCalls[c], 1)]

\* the order in which the std::set and std::map containers are walked
EAddressOrder == <<"v1", "v2", "one", "par", "p0", "p1", "p2", "q1", "q2", "q3">>

InEAddressOrder(S) == SelectSeq(EAddressOrder, LAMBDA a : a \in S)

Pop(st, k) == SubSeq(st, 1, Len(st) - k)

Top(st, k) == st[Len(st) - k]

\* the result of one operator of a program on the stack
Operate(ndx, st) ==
    CASE ndx = ADD -> Append(Pop(st, 2), Top(st, 1) + Top(st, 0))
      [] ndx = SUB -> Append(Pop(st, 2), Top(st, 1) - Top(st, 0))
      [] ndx = MUL -> Append(Pop(st, 2), Top(st, 1) * Top(st, 0))
      [] ndx = ABS ->
            Append(Pop(st, 1), IF Top(st, 0) < 0 THEN -Top(st, 0) ELSE Top(st, 0))
      [] ndx = SIGN -> Append(Pop(st, 1), IF Top(st, 0) >= 0 THEN 1 ELSE -1)
      [] ndx = IF_ELSE ->
            Append(Pop(st, 3), IF Top(st, 2) = 1 THEN Top(st, 1) ELSE Top(st, 0))
      [] ndx = INEQUALITY ->
            Append(Pop(st, 3),
                   IF Top(st, 2) >= Top(st, 1) /\ Top(st, 2) <= Top(st, 0)
                   THEN 1 ELSE 0)
      [] ndx = NEGATION -> Append(Pop(st, 1), -Top(st, 0))

Recognized == {ADD, SUB, MUL, ABS, SIGN, IF_ELSE, INEQUALITY, NEGATION}

\* the number of stack elements an operator pops
Arity(ndx) ==
    CASE ndx \in {ADD, SUB, MUL} -> 2
      [] ndx \in {ABS, SIGN, NEGATION} -> 1
      [] OTHER -> 3

\* a term that names a leaf the constraint does not have reads outside the
\* leaf table, and a pop from the empty stack reads stack[-1] (ub); an
\* unknown operator throws.  idx collects the values stack_ndx has when the
\* stack is read or written
RECURSIVE EvalRpn(_, _, _, _, _, _)
EvalRpn(rpn, values, lv, i, st, idx) ==
    IF i > Len(rpn)
    THEN IF st = <<>>
         THEN [thrown |-> FALSE, ub |-> TRUE, r |-> 0, idx |-> idx \cup {-1}]
         ELSE [thrown |-> FALSE, ub |-> FALSE, r |-> Top(st, 0),
               idx |-> idx \cup {Len(st) - 1}]
    ELSE IF rpn[i] >= 0
         THEN IF rpn[i] + 1 > Len(values)
              THEN [thrown |-> FALSE, ub |-> TRUE, r |-> 0, idx |-> idx]
              ELSE EvalRpn(rpn, values, lv, i + 1,
                           Append(st, lv[values[rpn[i] + 1]]), idx \cup {Len(st)})
    ELSE IF rpn[i] \in Recognized
         THEN IF Len(st) < Arity(rpn[i])
              THEN [thrown |-> FALSE, ub |-> TRUE, r |-> 0,
                    idx |-> idx \cup ((Len(st) - Arity(rpn[i]))..(Len(st) - 1))]
              ELSE EvalRpn(rpn, values, lv, i + 1, Operate(rpn[i], st),
                           idx \cup ((Len(st) - Arity(rpn[i]))..(Len(st) - 1)))
    ELSE [thrown |-> TRUE, ub |-> FALSE, r |-> 0, idx |-> idx]

\* _evaluate(stack, rpn, values) for the leaf values lv
_evaluate(rpn, values, lv) == EvalRpn(rpn, values, lv, 1, <<>>, {})

\* --- set_structure ---

ClearTables(t) ==
    [NoTables EXCEPT !.nnz = t.nnz, !.stack = t.stack]

MaxSize(m, rpn) == IF Len(rpn) > m THEN Len(rpn) ELSE m

\* the variables loop: var_vector in set order, index = position from 0
VarVector(vs) == InEAddressOrder(vs \cap EVars)

RECURSIVE IndexVars(_, _, _)
IndexVars(vi, vv, i) ==
    IF i > Len(vv) THEN vi
    ELSE IndexVars([vi EXCEPT ![vv[i]] = i - 1], vv, i + 1)

\* the inner loop over one plain constraint's jac_rpn map
RECURSIVE PlainJacLoop(_, _, _, _, _)
PlainJacLoop(t, jac, keys, vi, k) ==
    IF k > Len(keys) THEN t
    ELSE PlainJacLoop([t EXCEPT !.col_ndx = Append(@, vi[keys[k]]),
                                !.jac_rpn = Append(@, jac[keys[k]]),
                                !.max_rpn_size = MaxSize(@, jac[keys[k]])],
                      jac, keys, vi, k + 1)

PlainRow(t, con, vi, ndx) ==
    PlainJacLoop([t EXCEPT !.leaves = Append(@, con.leaves),
                           !.fn_rpn = Append(@, con.fn_rpn),
                           !.max_rpn_size = MaxSize(@, con.fn_rpn),
                           !.row_nnz = Append(@, @[ndx + 1] +
                                                 Cardinality(DOMAIN con.jac_rpn))],
                 con.jac_rpn, InEAddressOrder(DOMAIN con.jac_rpn), vi, 1)

RECURSIVE PlainLoop(_, _, _, _)
PlainLoop(t, cs, vi, i) ==
    IF i > Len(cs) THEN t
    ELSE PlainLoop(PlainRow(t, Plain[cs[i]], vi, i - 1), cs, vi, i + 1)

\* the loop over the jac_rpn map of an if-else constraint for branch i
\* (from 0) of n; it throws at the first variable whose number of programs
\* is not n
RECURSIVE IfElseJacLoop(_, _, _, _, _, _, _)
IfElseJacLoop(t, jac, keys, vi, i, n, k) ==
    IF k > Len(keys) THEN t
    ELSE IF Len(jac[keys[k]]) # n THEN [t EXCEPT !.thrown = TRUE]
    ELSE IfElseJacLoop(
            [t EXCEPT !.col_ndx = IF i = 0 THEN Append(@, vi[keys[k]]) ELSE @,
                      !.if_else_jac_rpn = Append(@, jac[keys[k]][i + 1]),
                      !.max_rpn_size = MaxSize(@, jac[keys[k]][i + 1])],
            jac, keys, vi, i, n, k + 1)

RECURSIVE IfElseConditionLoop(_, _, _, _, _)
IfElseConditionLoop(t, con, vi, i, n) ==
    IF i >= n \/ t.thrown THEN t
    ELSE IfElseConditionLoop(
            IfElseJacLoop(
                [t EXCEPT !.if_else_condition_rpn = Append(@, con.condition_rpn[i + 1]),
                          !.if_else_fn_rpn = Append(@, con.fn_rpn[i + 1]),
                          !.max_rpn_size =
                              MaxSize(MaxSize(@, con.condition_rpn[i + 1]),
                                      con.fn_rpn[i + 1])],
                con.jac_rpn, InEAddressOrder(DOMAIN con.jac_rpn), vi, i, n, 1),
            con, vi, i + 1, n)

IfElseRow(t, con, vi, ndx) ==
    IfElseConditionLoop(
        [t EXCEPT !.leaves = Append(@, con.leaves),
                  !.n_conditions = Append(@, Len(con.condition_rpn)),
                  !.row_nnz = Append(@, @[ndx + 1] + Cardinality(DOMAIN con.jac_rpn))],
        con, vi, 0, Len(con.condition_rpn))

RECURSIVE IfElseLoop(_, _, _, _, _)
IfElseLoop(t, qs, vi, ndx, j) ==
    IF j > Len(qs) \/ t.thrown THEN t
    ELSE IfElseLoop(IfElseRow(t, IfElse[qs[j]], vi, ndx), qs, vi, ndx + 1, j + 1)

\* the last two statements, which a throw skips
Allocate(t) ==
    IF t.thrown THEN t
    ELSE [t EXCEPT !.nnz = t.row_nnz[Len(t.row_nnz)], !.stack = "allocated"]

\* the tables set_structure leaves, from the tables t it starts with
BuildTables(t, vs, cs, qs, vi) ==
    Allocate(
        IfElseLoop(
            PlainLoop([ClearTables(t) EXCEPT !.var_vector = VarVector(vs),
                                             !.row_nnz = <<0>>],
                      InEAddressOrder(cs), vi, 1),
            InEAddressOrder(qs), vi, Cardinality(cs), 1))

\* --- evaluate and evaluate_csr_jacobian ---

Failed(e) == e.ub \/ e.thrown

\* the branch scan `while (!found)`: condition_ndx counts from 0 over
\* if_else_condition_rpn and is not compared with its length
RECURSIVE Scan(_, _, _, _, _, _)
RECURSIVE ScanNext(_, _, _, _, _, _)
Scan(t, lv, row, condition_ndx, i, idx) ==
    IF condition_ndx + 1 > Len(t.if_else_condition_rpn)
    THEN [thrown |-> FALSE, ub |-> TRUE, condition_ndx |-> condition_ndx, i |-> i,
          idx |-> idx]
    ELSE IF Len(t.if_else_condition_rpn[condition_ndx + 1]) = 0
    THEN [thrown |-> FALSE, ub |-> FALSE, condition_ndx |-> condition_ndx, i |-> i,
          idx |-> idx]
    ELSE ScanNext(t, lv, row, condition_ndx, i,
                  [_evaluate(t.if_else_condition_rpn[condition_ndx + 1],
                             t.leaves[row], lv) EXCEPT !.idx = @ \cup idx])

ScanNext(t, lv, row, condition_ndx, i, e) ==
    IF Failed(e)
    THEN [thrown |-> e.thrown, ub |-> e.ub, condition_ndx |-> condition_ndx, i |-> i,
          idx |-> e.idx]
    ELSE IF e.r = 1
    THEN [thrown |-> FALSE, ub |-> FALSE, condition_ndx |-> condition_ndx, i |-> i,
          idx |-> e.idx]
    ELSE Scan(t, lv, row, condition_ndx + 1, i + 1, e.idx)

\* the stack indices of the run e join those of the call
Used(w, e) == [w EXCEPT !.stack = @ \cup e.idx]

Stop(e, w) == [thrown |-> e.thrown, ub |-> e.ub, w |-> Used(w, e)]

Done(w) == [thrown |-> FALSE, ub |-> FALSE, w |-> w]

RECURSIVE EvaluatePlain(_, _, _, _, _)
RECURSIVE EvaluatePlainNext(_, _, _, _, _, _)
EvaluatePlain(t, lv, num_cons, con_ndx, w) ==
    IF con_ndx >= num_cons THEN Done(w)
    ELSE EvaluatePlainNext(t, lv, num_cons, con_ndx, w,
                           _evaluate(t.fn_rpn[con_ndx + 1], t.leaves[con_ndx + 1], lv))

EvaluatePlainNext(t, lv, num_cons, con_ndx, w, e) ==
    IF Failed(e) THEN Stop(e, w)
    ELSE EvaluatePlain(t, lv, num_cons, con_ndx + 1,
                       [Used(w, e) EXCEPT !.values = Append(@, e.r)])

RECURSIVE EvaluateIfElse(_, _, _, _, _, _, _)
RECURSIVE EvaluateFound(_, _, _, _, _, _, _)
RECURSIVE EvaluateIfElseNext(_, _, _, _, _, _, _, _)
EvaluateIfElse(t, lv, total, con_ndx, c, condition_ndx, w) ==
    IF con_ndx >= total THEN Done(w)
    ELSE EvaluateFound(t, lv, total, con_ndx, c, w,
                       Scan(t, lv, con_ndx + 1, condition_ndx, 0, {}))

EvaluateFound(t, lv, total, con_ndx, c, w, f) ==
    IF Failed(f) THEN Stop(f, w)
    ELSE EvaluateIfElseNext(t, lv, total, con_ndx, c, Used(w, f), f,
                            _evaluate(t.if_else_fn_rpn[f.condition_ndx + 1],
                                      t.leaves[con_ndx + 1], lv))

EvaluateIfElseNext(t, lv, total, con_ndx, c, w, f, e) ==
    IF Failed(e) THEN Stop(e, w)
    ELSE EvaluateIfElse(t, lv, total, con_ndx + 1, c + 1,
                        f.condition_ndx + t.n_conditions[c + 1] - f.i,
                        [Used(w, e) EXCEPT !.values = Append(@, e.r)])

EvaluateRest(t, lv, total, num_cons, r) ==
    IF Failed(r) THEN r
    ELSE EvaluateIfElse(t, lv, total, num_cons, 0, 0, r.w)

\* a stack that set_structure did not allocate is read and written
\* through a stray pointer
EvaluateRun(t, lv, num_cons, num_if_else_cons) ==
    IF t.stack # "allocated" THEN [thrown |-> FALSE, ub |-> TRUE, w |-> NoWritten]
    ELSE EvaluateRest(t, lv, num_cons + num_if_else_cons, num_cons,
                      EvaluatePlain(t, lv, num_cons, 0, NoWritten))

\* the nnz programs of one row, from program jac_ndx (from 0) of table jac
RECURSIVE RowValues(_, _, _, _, _, _, _, _)
RECURSIVE RowValuesNext(_, _, _, _, _, _, _, _, _)
RowValues(t, lv, jac, row, nnz_ndx, jac_ndx, j, w) ==
    IF j >= t.row_nnz[row + 1] - t.row_nnz[row] THEN Done(w)
    ELSE IF jac_ndx + 1 > Len(jac) \/ nnz_ndx + 1 > Len(t.col_ndx)
    THEN [thrown |-> FALSE, ub |-> TRUE, w |-> w]
    ELSE RowValuesNext(t, lv, jac, row, nnz_ndx, jac_ndx, j, w,
                       _evaluate(jac[jac_ndx + 1], t.leaves[row], lv))

RowValuesNext(t, lv, jac, row, nnz_ndx, jac_ndx, j, w, e) ==
    IF Failed(e) THEN Stop(e, w)
    ELSE RowValues(t, lv, jac, row, nnz_ndx + 1, jac_ndx + 1, j + 1,
                   [Used(w, e) EXCEPT !.values = Append(@, e.r),
                                      !.col_ndx = Append(@, t.col_ndx[nnz_ndx + 1])])

RowStart(t, con_ndx, w) == [w EXCEPT !.row_nnz = Append(@, t.row_nnz[con_ndx + 2])]

RowSize(t, con_ndx) == t.row_nnz[con_ndx + 2] - t.row_nnz[con_ndx + 1]

RECURSIVE JacobianPlain(_, _, _, _, _)
RECURSIVE JacobianPlainNext(_, _, _, _, _)
JacobianPlain(t, lv, num_cons, con_ndx, w) ==
    IF con_ndx >= num_cons THEN Done(w)
    ELSE JacobianPlainNext(t, lv, num_cons, con_ndx,
                           RowValues(t, lv, t.jac_rpn, con_ndx + 1,
                                     Len(w.values), Len(w.values), 0,
                                     RowStart(t, con_ndx, w)))

JacobianPlainNext(t, lv, num_cons, con_ndx, r) ==
    IF Failed(r) THEN r ELSE JacobianPlain(t, lv, num_cons, con_ndx + 1, r.w)

RECURSIVE JacobianIfElse(_, _, _, _, _, _, _, _)
RECURSIVE JacobianFound(_, _, _, _, _, _, _, _)
RECURSIVE JacobianIfElseNext(_, _, _, _, _, _, _, _)
JacobianIfElse(t, lv, total, con_ndx, c, condition_ndx, jac_ndx, w) ==
    IF con_ndx >= total THEN Done(w)
    ELSE JacobianFound(t, lv, total, con_ndx, c, jac_ndx, w,
                       Scan(t, lv, con_ndx + 1, condition_ndx, 0, {}))

JacobianFound(t, lv, total, con_ndx, c, jac_ndx, w, f) ==
    IF Failed(f) THEN Stop(f, w)
    ELSE JacobianIfElseNext(t, lv, total, con_ndx, c, jac_ndx, f,
                            RowValues(t, lv, t.if_else_jac_rpn, con_ndx + 1,
                                      Len(w.values),
                                      jac_ndx + f.i * RowSize(t, con_ndx), 0,
                                      RowStart(t, con_ndx, Used(w, f))))

JacobianIfElseNext(t, lv, total, con_ndx, c, jac_ndx, f, r) ==
    IF Failed(r) THEN r
    ELSE JacobianIfElse(t, lv, total, con_ndx + 1, c + 1,
                        f.condition_ndx + t.n_conditions[c + 1] - f.i,
                        jac_ndx + t.n_conditions[c + 1] * RowSize(t, con_ndx),
                        r.w)

JacobianRest(t, lv, total, num_cons, r) ==
    IF Failed(r) THEN r
    ELSE JacobianIfElse(t, lv, total, num_cons, 0, 0, 0, r.w)

JacobianRun(t, lv, num_cons, num_if_else_cons) ==
    IF t.stack # "allocated" THEN [thrown |-> FALSE, ub |-> TRUE, w |-> NoWritten]
    ELSE JacobianRest(t, lv, num_cons + num_if_else_cons, num_cons,
                      JacobianPlain(t, lv, num_cons, 0,
                                    [NoWritten EXCEPT !.row_nnz = <<0>>]))


\* --- the Evaluator's operations ---

notEval == <<heapVars, ipoptVars, usetVars, nlpVars, condVars, wmVars, csrVars, buildVars>>

Running == ev_out.result # "crashed"

EvReturn(op, result, w) == ev_out' = [op |-> op, result |-> result, written |-> w]

\* what `if (is_structure_set) remove_structure();` leaves of the stack:
\* delete[] of a pointer that new[] did not return may end the process
StackAfterRemove ==
    IF ~is_structure_set THEN {tab.stack}
    ELSE IF tab.stack = "allocated" THEN {"freed"}
    ELSE {"freed", "crashed"}

EvCrashed(op) ==
    /\ EvReturn(op, "crashed", NoWritten)
    /\ UNCHANGED <<is_structure_set, leaf_set, con_set, if_else_con_set,
                   leaf_value, var_index, tab, last_structure_op>>

\* an add_ or remove_ operation without the prelude
MutationKeepsStructure(op, ls, cs, qs, lv, vi) ==
    /\ Running
    /\ leaf_set' = ls
    /\ con_set' = cs
    /\ if_else_con_set' = qs
    /\ leaf_value' = lv
    /\ var_index' = vi
    /\ EvReturn(op, "ok", NoWritten)
    /\ UNCHANGED <<is_structure_set, tab, last_structure_op, notEval>>

\* the prelude shared by the add_ and remove_ operations, then their
\* change ls, cs, qs, lv, vi of the sets, leaf values and indices
Mutation(op, ls, cs, qs, lv, vi) ==
    /\ Running
    /\ \E s \in StackAfterRemove :
          IF s = "crashed" THEN EvCrashed(op)
          ELSE /\ is_structure_set' = FALSE
               /\ tab' = [tab EXCEPT !.stack = s]
               /\ last_structure_op' =
                     IF is_structure_set THEN "remove_structure" ELSE last_structure_op
               /\ leaf_set' = ls
               /\ con_set' = cs
               /\ if_else_con_set' = qs
               /\ leaf_value' = lv
               /\ var_index' = vi
               /\ EvReturn(op, "ok", NoWritten)
    /\ UNCHANGED notEval

LeafValues == {1}

Evaluator_add_var(v, value) ==
    /\ v \in EVars \ leaf_set
    /\ Mutation("add_var", leaf_set \cup {v}, con_set, if_else_con_set,
                [leaf_value EXCEPT ![v] = value], var_index)

Evaluator_add_float(f, value) ==
    /\ f \in EFloats \ leaf_set
    /\ Mutation("add_float", leaf_set \cup {f}, con_set, if_else_con_set,
                [leaf_value EXCEPT ![f] = value], var_index)

Evaluator_add_param(par, value) ==
    /\ par \in EParams \ leaf_set
    /\ Mutation("add_param", leaf_set \cup {par}, con_set, if_else_con_set,
                [leaf_value EXCEPT ![par] = value], var_index)

Evaluator_remove_param(par) ==
    /\ par \in EParams \cap leaf_set
    /\ Mutation("remove_param", leaf_set \ {par}, con_set, if_else_con_set,
                [leaf_value EXCEPT ![par] = 0], var_index)

Leaves(c) == {c.leaves[i] : i \in 1..Len(c.leaves)}

\* the leaves some registered constraint holds a pointer to
Referenced ==
    UNION ({Leaves(Plain[c]) : c \in con_set}
           \cup {Leaves(IfElse[c]) : c \in if_else_con_set})

\* add_constraint together with the builder calls that fill the constraint
Evaluator_add_constraint(c) ==
    /\ c \in DOMAIN Plain \ con_set
    /\ Leaves(Plain[c]) \subseteq leaf_set
    /\ Mutation("add_constraint", leaf_set, con_set \cup {c}, if_else_con_set,
                leaf_value, var_index)

Evaluator_add_if_else_constraint(c) ==
    /\ c \in DOMAIN IfElse \ if_else_con_set
    /\ Leaves(IfElse[c]) \subseteq leaf_set
    /\ Mutation("add_if_else_constraint", leaf_set, con_set,
                if_else_con_set \cup {c}, leaf_value, var_index)

\* a caller deletes a leaf only after the constraints that point to it
Evaluator_remove_var(v) ==
    /\ v \in (EVars \cap leaf_set) \ Referenced
    /\ Mutation("remove_var", leaf_set \ {v}, con_set, if_else_con_set,
                [leaf_value EXCEPT ![v] = 0], [var_index EXCEPT ![v] = -1])

Evaluator_remove_float(f) ==
    /\ f \in (EFloats \cap leaf_set) \ Referenced
    /\ Mutation("remove_float", leaf_set \ {f}, con_set, if_else_con_set,
                [leaf_value EXCEPT ![f] = 0], var_index)

Evaluator_remove_constraint(c) ==
    /\ c \in con_set
    /\ Mutation("remove_constraint", leaf_set, con_set \ {c}, if_else_con_set,
                leaf_value, var_index)

Evaluator_remove_if_else_constraint(c) ==
    /\ c \in if_else_con_set
    /\ Mutation("remove_if_else_constraint", leaf_set, con_set,
                if_else_con_set \ {c}, leaf_value, var_index)

\* is_structure_set is assigned before the tables are built, so it stays
\* true when the build throws
SetStructureReturn(t, vi) ==
    /\ is_structure_set' = TRUE
    /\ tab' = t
    /\ var_index' = vi
    /\ last_structure_op' = "set_structure"
    /\ EvReturn("set_structure",
                IF t.thrown THEN "StructureException" ELSE "ok", NoWritten)
    /\ UNCHANGED <<leaf_set, con_set, if_else_con_set, leaf_value>>

Evaluator_set_structure ==
    /\ Running
    /\ \E s \in StackAfterRemove :
          IF s = "crashed" THEN EvCrashed("set_structure")
          ELSE SetStructureReturn(
                  BuildTables([tab EXCEPT !.stack = s], leaf_set, con_set,
                              if_else_con_set,
                              IndexVars(var_index, VarVector(leaf_set), 1)),
                  IndexVars(var_index, VarVector(leaf_set), 1))
    /\ UNCHANGED notEval

Evaluator_remove_structure ==
    /\ Running
    /\ \E s \in StackAfterRemove :
          IF s = "crashed" THEN EvCrashed("remove_structure")
          ELSE /\ is_structure_set' = FALSE
               /\ tab' = [tab EXCEPT !.stack = s]
               /\ last_structure_op' = "remove_structure"
               /\ EvReturn("remove_structure", "ok", NoWritten)
               /\ UNCHANGED <<leaf_set, con_set, if_else_con_set, leaf_value,
                              var_index>>
    /\ UNCHANGED notEval

\* a guard that lets every call through
StructureNeverChecked == FALSE

StructureNotSet == ~is_structure_set

evalState == <<is_structure_set, leaf_set, con_set, if_else_con_set, leaf_value,
               var_index, tab, last_structure_op>>

\* how a run r of evaluate or evaluate_csr_jacobian ends; one that read
\* or wrote outside its tables either ends the process or returns with
\* some value in the output
RunReturn(op, r) ==
    IF r.ub
    THEN \E j \in Junk :
            \/ EvReturn(op, "crashed", NoWritten)
            \/ EvReturn(op, "undefined", [r.w EXCEPT !.values = Append(@, j)])
    ELSE IF r.thrown THEN EvReturn(op, "runtime_error", r.w)
    ELSE EvReturn(op, "ok", r.w)

Evaluator_evaluate ==
    /\ Running
    /\ IF StructureNotSet
       THEN EvReturn("evaluate", "StructureException", NoWritten)
       ELSE RunReturn("evaluate",
                      EvaluateRun(tab, leaf_value, Cardinality(con_set),
                                  Cardinality(if_else_con_set)))
    /\ UNCHANGED <<evalState, notEval>>

Evaluator_evaluate_csr_jacobian ==
    /\ Running
    /\ IF StructureNotSet
       THEN EvReturn("evaluate_csr_jacobian", "StructureException", NoWritten)
       ELSE RunReturn("evaluate_csr_jacobian",
                      JacobianRun(tab, leaf_value, Cardinality(con_set),
                                  Cardinality(if_else_con_set)))
    /\ UNCHANGED <<evalState, notEval>>

Evaluator_get_x ==
    /\ Running
    /\ IF StructureNotSet
       THEN EvReturn("get_x", "StructureException", NoWritten)
       ELSE EvReturn("get_x", "ok",
                     [NoWritten EXCEPT !.values =
                         [i \in 1..Len(tab.var_vector) |->
                             leaf_value[tab.var_vector[i]]]])
    /\ UNCHANGED <<evalState, notEval>>

EXPoints == {<<1, 2>>, <<2, 1>>}

Evaluator_load_var_values_from_x(array_in) ==
    /\ Running
    /\ IF StructureNotSet
       THEN /\ EvReturn("load_var_values_from_x", "StructureException", NoWritten)
            /\ UNCHANGED leaf_value
       ELSE /\ leaf_value' =
                  [l \in DOMAIN leaf_value |->
                      IF \E i \in 1..Len(tab.var_vector) : tab.var_vector[i] = l
                      THEN array_in[CHOOSE i \in 1..Len(tab.var_vector) :
                                        tab.var_vector[i] = l]
                      ELSE leaf_value[l]]
            /\ EvReturn("load_var_values_from_x", "ok", NoWritten)
    /\ UNCHANGED <<is_structure_set, leaf_set, con_set, if_else_con_set,
                   var_index, tab, last_structure_op, notEval>>

EvalNext ==
    \/ \E v \in EVars, value \in LeafValues : Evaluator_add_var(v, value)
    \/ \E f \in EFloats : Evaluator_add_float(f, 1)
    \/ \E c \in {"p1", "p2"} : Evaluator_add_constraint(c)
    \/ \E c \in DOMAIN IfElse : Evaluator_add_if_else_constraint(c)
    \/ \E v \in EVars : Evaluator_remove_var(v)
    \/ \E f \in EFloats : Evaluator_remove_float(f)
    \/ \E c \in {"p1", "p2"} : Evaluator_remove_constraint(c)
    \/ \E c \in DOMAIN IfElse : Evaluator_remove_if_else_constraint(c)
    \/ Evaluator_set_structure
    \/ Evaluator_remove_structure
    \/ Evaluator_evaluate
    \/ Evaluator_evaluate_csr_jacobian
    \/ Evaluator_get_x
    \/ \E x \in EXPoints : Evaluator_load_var_values_from_x(x)

SpecEval == Init /\ [][EvalNext]_allVars

\* the constraints in the order of their rows, and the variables that have
\* a Jacobian program in each
Rows == InEAddressOrder(con_set) \o InEAddressOrder(if_else_con_set)

JacVars(c) ==
    IF c \in DOMAIN Plain THEN DOMAIN Plain[c].jac_rpn ELSE DOMAIN IfElse[c].jac_rpn

Succeeded == is_structure_set /\ ~tab.thrown

\* the part of the CSR law that concerns the tables of set_structure
TablesCsrLaw ==
    Succeeded =>
        /\ Len(tab.row_nnz) = Len(Rows) + 1
        /\ tab.row_nnz[1] = 0
        /\ \A i \in 1..Len(Rows) : tab.row_nnz[i] <= tab.row_nnz[i + 1]
        /\ tab.row_nnz[Len(Rows) + 1] = Len(tab.col_ndx)
        /\ tab.nnz = Len(tab.col_ndx)
        /\ \A i \in 1..Len(Rows) :
              /\ tab.row_nnz[i + 1] - tab.row_nnz[i] = Cardinality(JacVars(Rows[i]))
              /\ {tab.col_ndx[k] : k \in (tab.row_nnz[i] + 1)..tab.row_nnz[i + 1]}
                    = {var_index[v] : v \in JacVars(Rows[i])}

\* C6: after a successful set_structure the tables obey the CSR law, and
\* evaluate_csr_jacobian writes exactly these row_nnz and col_ndx arrays
\* together with nnz values.
C6_CsrLaw ==
    /\ TablesCsrLaw
    /\ (Succeeded /\ ev_out.op = "evaluate_csr_jacobian") =>
          /\ ev_out.result = "ok"
          /\ ev_out.written.row_nnz = tab.row_nnz
          /\ ev_out.written.col_ndx = tab.col_ndx
          /\ Len(ev_out.written.values) = tab.nnz

GuardedCalls == {"evaluate", "evaluate_csr_jacobian", "get_x", "load_var_values_from_x"}

NoStructure == last_structure_op \in {"none", "remove_structure"}

\* C7: evaluate, evaluate_csr_jacobian, get_x and load_var_values_from_x,
\* called before the first set_structure or after a remove_structure with
\* no set_structure since, fail with StructureException and write neither
\* to the output array nor to a Var.
C7_GuardedWithoutStructure ==
    /\ []((NoStructure /\ ev_out.op \in GuardedCalls) =>
             /\ ev_out.result = "StructureException"
             /\ ev_out.written = NoWritten)
    /\ [][(NoStructure /\ ev_out'.op \in GuardedCalls) =>
             /\ leaf_value' = leaf_value
             /\ var_index' = var_index]_allVars

\* a structure was set and removed again, with two variables and a
\* constraint registered, and the values of the variables were then
\* offered to load_var_values_from_x
C7_Witness ==
    /\ last_structure_op = "remove_structure" /\ tab.stack = "freed"
    /\ EVars \subseteq leaf_set /\ con_set # {}
    /\ ev_out.op = "load_var_values_from_x"
    /\ ev_out.result = "StructureException"

\* C8: a set_structure that throws StructureException leaves the structure
\* not set, and a following evaluate or evaluate_csr_jacobian throws
\* StructureException.
C8_FailedSetStructureCommitsNothing ==
    /\ []((ev_out.op = "set_structure" /\ ev_out.result = "StructureException")
             => ~is_structure_set)
    /\ [][(/\ ev_out.op = "set_structure"
           /\ ev_out.result = "StructureException"
           /\ ev_out'.op \in {"evaluate", "evaluate_csr_jacobian"})
             => ev_out'.result = "StructureException"]_allVars

\* the evaluator driven through its whole interface, with a constraint
\* that add_constraint returned and no builder call filled
EvalApiPlain == {"p0", "p1"}
EvalApiIfElse == {"q1"}
EvalApiPoints == {<<2, 1>>}

EvalApiNext ==
    \/ \E v \in EVars : Evaluator_add_var(v, 1)
    \/ \E par \in EParams : Evaluator_add_param(par, 1)
    \/ \E f \in EFloats : Evaluator_add_float(f, 1)
    \/ \E c \in EvalApiPlain : Evaluator_add_constraint(c)
    \/ \E c \in EvalApiIfElse : Evaluator_add_if_else_constraint(c)
    \/ \E v \in EVars : Evaluator_remove_var(v)
    \/ \E par \in EParams : Evaluator_remove_param(par)
    \/ \E f \in EFloats : Evaluator_remove_float(f)
    \/ \E c \in EvalApiPlain : Evaluator_remove_constraint(c)
    \/ \E c \in EvalApiIfElse : Evaluator_remove_if_else_constraint(c)
    \/ Evaluator_set_structure
    \/ Evaluator_remove_structure
    \/ Evaluator_evaluate
    \/ Evaluator_evaluate_csr_jacobian
    \/ Evaluator_get_x
    \/ \E x \in EvalApiPoints : Evaluator_load_var_values_from_x(x)

SpecEvalApi == Init /\ [][EvalApiNext]_allVars

\* evaluate or evaluate_csr_jacobian has run on tables that set_structure
\* built
RanOnTables ==
    /\ ev_out.op \in {"evaluate", "evaluate_csr_jacobian"}
    /\ ev_out.result \in {"ok", "runtime_error", "undefined"}
    /\ is_structure_set
    /\ ~tab.thrown
    /\ tab.stack = "allocated"

\* C25: every read and write of the stack by a run of evaluate or
\* evaluate_csr_jacobian on tables that set_structure built uses an index
\* in 0 .. max_rpn_size - 1, whatever the registered constraints
C25_StackIndexInRange ==
    RanOnTables => ev_out.written.stack \subseteq 0..(tab.max_rpn_size - 1)

\* the same, for the constraints whose programs the builder calls filled
StackIndexInRangeWhenFilled ==
    (RanOnTables /\ "p0" \notin con_set)
    => ev_out.written.stack \subseteq 0..(tab.max_rpn_size - 1)

\* the evaluator with no caller of remove_structure but its own add_ and
\* remove_ operations
EvalMutateNext ==
    \/ \E v \in EVars : Evaluator_add_var(v, 1)
    \/ \E par \in EParams : Evaluator_add_param(par, 1)
    \/ \E f \in EFloats : Evaluator_add_float(f, 1)
    \/ \E c \in EvalApiPlain : Evaluator_add_constraint(c)
    \/ \E c \in EvalApiIfElse : Evaluator_add_if_else_constraint(c)
    \/ \E v \in EVars : Evaluator_remove_var(v)
    \/ \E par \in EParams : Evaluator_remove_param(par)
    \/ \E f \in EFloats : Evaluator_remove_float(f)
    \/ \E c \in EvalApiPlain : Evaluator_remove_constraint(c)
    \/ \E c \in EvalApiIfElse : Evaluator_remove_if_else_constraint(c)
    \/ Evaluator_set_structure
    \/ Evaluator_evaluate
    \/ Evaluator_evaluate_csr_jacobian
    \/ Evaluator_get_x
    \/ \E x \in EvalApiPoints : Evaluator_load_var_values_from_x(x)

SpecEvalMutate == Init /\ [][EvalMutateNext]_allVars

MutationCalls ==
    {"add_var", "add_param", "add_float", "add_constraint", "add_if_else_constraint",
     "remove_var", "remove_param", "remove_float", "remove_constraint",
     "remove_if_else_constraint"}

\* C28: an add_ or remove_ call that returns leaves the structure not
\* set; only set_structure sets it again; and until then evaluate,
\* evaluate_csr_jacobian, get_x and load_var_values_from_x fail with
\* StructureException, write nothing and leave the Vars alone
C28_MutationRemovesStructure ==
    /\ [][(ev_out'.op \in MutationCalls /\ ev_out'.result = "ok")
             => ~is_structure_set']_allVars
    /\ [][(~is_structure_set /\ is_structure_set')
             => ev_out'.op = "set_structure"]_allVars
    /\ [][(~is_structure_set /\ ev_out'.op \in GuardedCalls) =>
             /\ ev_out'.result = "StructureException"
             /\ ev_out'.written = NoWritten
             /\ leaf_value' = leaf_value]_allVars

\* tables were built for a constraint, a mutation removed the structure,
\* and an evaluate called after it failed
C28_Witness ==
    /\ last_structure_op = "remove_structure"
    /\ tab.stack = "freed" /\ tab.fn_rpn # <<>>
    /\ ~is_structure_set
    /\ ev_out.op = "evaluate"
    /\ ev_out.result = "StructureException"

\* the index in if_else_condition_rpn of the first condition of the c-th
\* if-else constraint (from 0)
RECURSIVE FirstCondition(_, _)
FirstCondition(t, c) ==
    IF c = 0 THEN 0 ELSE FirstCondition(t, c - 1) + t.n_conditions[c]

\* the scan of the branches of the c-th if-else constraint as evaluate and
\* evaluate_csr_jacobian run it when they reach the constraint's row
BranchScan(c) ==
    Scan(tab, leaf_value, Cardinality(con_set) + c + 1, FirstCondition(tab, c), 0, {})

\* C24: when evaluate or evaluate_csr_jacobian has run on tables that
\* set_structure built, the branch scan of every if-else constraint stops
\* within the n_conditions branches of that constraint and reads no
\* condition program past the end of the table
C24_BranchScanStaysInConstraint ==
    (/\ ev_out.op \in {"evaluate", "evaluate_csr_jacobian"}
     /\ is_structure_set
     /\ ~tab.thrown
     /\ tab.stack = "allocated")
    => \A c \in 0..(Len(tab.n_conditions) - 1) :
          BranchScan(c).i < tab.n_conditions[c + 1]

\* ---------------------------------------------------------------------
\* WNTRModel::evaluate: the constraints shared out among worker threads
\* ---------------------------------------------------------------------

MaxThreads == 3
MaxConsVector == 4
MaxVarsVector == 4
MaxNnz == 4

\* what Constraint::evaluate returns for each constraint
WmValue == [k1 |-> 5, k2 |-> 7, k3 |-> 11]

\* the order in which the sets cons and vars are iterated over
WmOrder == <<"k1", "k2", "k3">>
WmVarOrder == <<"p", "q">>

\* Constraint::vars, of length Constraint::num_vars
WmConVars == [k1 |-> <<"p">>, k2 |-> <<"q", "p">>, k3 |-> <<"q">>]
num_vars(con) == Len(WmConVars[con])

notWm == <<heapVars, ipoptVars, usetVars, nlpVars, condVars, evalVars, csrVars,
          buildVars>>

evaluating == <<wm_pc, wm_call, threads_array, array_out>>

\* the members of WNTRModel
wmModel == <<is_structure_fixed, wm_vars, wm_cons, nnz, vars_vector, cons_vector,
             wm_index>>

WNTRModel_add_constraint(con) ==
    /\ wm_pc = "idle"
    /\ nnz + num_vars(con) <= MaxNnz
    /\ wm_op' = "add_constraint"
    /\ IF is_structure_fixed
       THEN wm_out' = "runtime_error" /\ UNCHANGED <<wm_cons, nnz>>
       ELSE /\ wm_cons' = wm_cons \cup {con}
            /\ nnz' = nnz + num_vars(con)
            /\ wm_out' = "ok"
    /\ wm_array' = NoArrays
    /\ UNCHANGED <<is_structure_fixed, cons_vector, wm_vars, vars_vector, wm_index,
                   var_value, evaluating, notWm>>

WNTRModel_remove_constraint(con) ==
    /\ wm_pc = "idle"
    /\ nnz - num_vars(con) >= -MaxNnz
    /\ wm_op' = "remove_constraint"
    /\ IF is_structure_fixed
       THEN wm_out' = "runtime_error" /\ UNCHANGED <<wm_cons, nnz>>
       ELSE /\ wm_cons' = wm_cons \ {con}
            /\ nnz' = nnz - num_vars(con)
            /\ wm_out' = "ok"
    /\ wm_array' = NoArrays
    /\ UNCHANGED <<is_structure_fixed, cons_vector, wm_vars, vars_vector, wm_index,
                   var_value, evaluating, notWm>>

WNTRModel_add_var(v) ==
    /\ wm_pc = "idle"
    /\ wm_op' = "add_var"
    /\ IF is_structure_fixed
       THEN wm_out' = "runtime_error" /\ UNCHANGED wm_vars
       ELSE wm_vars' = wm_vars \cup {v} /\ wm_out' = "ok"
    /\ wm_array' = NoArrays
    /\ UNCHANGED <<is_structure_fixed, wm_cons, nnz, cons_vector, vars_vector, wm_index,
                   var_value, evaluating, notWm>>

\* a remove_var that erases before it looks at is_structure_fixed
remove_var_late_check(v) ==
    /\ wm_pc = "idle"
    /\ wm_op' = "remove_var"
    /\ wm_vars' = wm_vars \ {v}
    /\ wm_out' = IF is_structure_fixed THEN "runtime_error" ELSE "ok"
    /\ wm_array' = NoArrays
    /\ UNCHANGED <<is_structure_fixed, wm_cons, nnz, cons_vector, vars_vector, wm_index,
                   var_value, evaluating, notWm>>

WNTRModel_remove_var(v) ==
    /\ wm_pc = "idle"
    /\ wm_op' = "remove_var"
    /\ IF is_structure_fixed
       THEN wm_out' = "runtime_error" /\ UNCHANGED wm_vars
       ELSE wm_vars' = wm_vars \ {v} /\ wm_out' = "ok"
    /\ wm_array' = NoArrays
    /\ UNCHANGED <<is_structure_fixed, wm_cons, nnz, cons_vector, vars_vector, wm_index,
                   var_value, evaluating, notWm>>

\* the members of the set S in iteration order
Members(order, S) == SelectSeq(order, LAMBDA o : o \in S)

\* (*it)->index = _v; ++_v over a set
RECURSIVE NumberFromZero(_, _, _)
NumberFromZero(s, idx, i) ==
    IF i > Len(s) THEN idx
    ELSE NumberFromZero(s, [idx EXCEPT ![s[i]] = i - 1], i + 1)

\* vars_vector and cons_vector are appended to, and are cleared by
\* release_structure only
WNTRModel_set_structure ==
    /\ wm_pc = "idle"
    /\ Len(cons_vector) + Cardinality(wm_cons) <= MaxConsVector
    /\ Len(vars_vector) + Cardinality(wm_vars) <= MaxVarsVector
    /\ wm_op' = "set_structure"
    /\ is_structure_fixed' = TRUE
    /\ vars_vector' = vars_vector \o Members(WmVarOrder, wm_vars)
    /\ cons_vector' = cons_vector \o Members(WmOrder, wm_cons)
    /\ wm_index' = NumberFromZero(Members(WmOrder, wm_cons),
                                  NumberFromZero(Members(WmVarOrder, wm_vars), wm_index, 1),
                                  1)
    /\ wm_out' = "ok"
    /\ wm_array' = NoArrays
    /\ UNCHANGED <<wm_cons, wm_vars, nnz, var_value, evaluating, notWm>>

WNTRModel_release_structure ==
    /\ wm_pc = "idle"
    /\ wm_op' = "release_structure"
    /\ is_structure_fixed' = FALSE
    /\ cons_vector' = <<>>
    /\ vars_vector' = <<>>
    /\ wm_out' = "ok"
    /\ wm_array' = NoArrays
    /\ UNCHANGED <<wm_cons, wm_vars, nnz, wm_index, var_value, evaluating,
                   notWm>>

\* array_out[i] = v_ptr->value over vars_vector
WNTRModel_get_x ==
    /\ wm_pc = "idle"
    /\ wm_op' = "get_x"
    /\ IF ~is_structure_fixed
       THEN wm_out' = "runtime_error" /\ wm_array' = NoArrays
       ELSE /\ wm_array' = [NoArrays EXCEPT
                              !.x = [i \in 1..Len(vars_vector) |-> var_value[vars_vector[i]]]]
            /\ wm_out' = "ok"
    /\ UNCHANGED <<wmModel, var_value, evaluating, notWm>>

\* v_ptr->value = arrayin[i] over vars_vector, front to back
RECURSIVE LoadValues(_, _, _, _)
LoadValues(vv, val, arrayin, i) ==
    IF i > Len(vv) THEN val
    ELSE LoadValues(vv, [val EXCEPT ![vv[i]] = arrayin[i]], arrayin, i + 1)

WNTRModel_load_var_values_from_x(arrayin) ==
    /\ wm_pc = "idle"
    /\ wm_op' = "load_var_values_from_x"
    /\ Len(arrayin) = MaxVarsVector
    /\ IF ~is_structure_fixed
       THEN wm_out' = "runtime_error" /\ UNCHANGED var_value
       ELSE /\ var_value' = LoadValues(vars_vector, var_value, arrayin, 1)
            /\ wm_out' = "ok"
    /\ wm_array' = NoArrays
    /\ UNCHANGED <<wmModel, evaluating, notWm>>

\* the three output arrays of evaluate_csr_jacobian after the loop over
\* the first i - 1 members of cons_vector; a value is named by the
\* constraint and the Var whose der it is
RECURSIVE CsrLoop(_, _, _)
CsrLoop(cv, arrays, i) ==
    IF i > Len(cv) THEN arrays
    ELSE CsrLoop(cv,
                 [arrays EXCEPT
                    !.row_nnz = Append(@, @[Len(@)] + num_vars(cv[i])),
                    !.values = @ \o [j \in 1..num_vars(cv[i]) |-> <<cv[i], WmConVars[cv[i]][j]>>],
                    !.col_ndx = @ \o [j \in 1..num_vars(cv[i]) |->
                                         wm_index[WmConVars[cv[i]][j]]]],
                 i + 1)

WNTRModel_evaluate_csr_jacobian ==
    /\ wm_pc = "idle"
    /\ wm_op' = "evaluate_csr_jacobian"
    /\ IF ~is_structure_fixed
       THEN wm_out' = "runtime_error" /\ wm_array' = NoArrays
       ELSE /\ wm_array' = CsrLoop(cons_vector, [NoArrays EXCEPT !.row_nnz = <<0>>], 1)
            /\ wm_out' = "ok"
    /\ UNCHANGED <<wmModel, var_value, evaluating, notWm>>

Unstarted == [indices |-> <<>>, pos |-> 1, state |-> "unstarted"]

Unwritten == [value |-> 0, writes |-> 0, writer |-> 0]

\* the guard and the locals of evaluate, up to the first loop
WNTRModel_evaluate(num_threads) ==
    /\ wm_pc = "idle"
    /\ wm_op' = "evaluate"
    /\ wm_array' = NoArrays
    /\ IF ~is_structure_fixed
       THEN wm_out' = "runtime_error" /\ UNCHANGED evaluating
       ELSE /\ wm_pc' = "spawn"
            /\ wm_call' = [num_threads |-> num_threads, thread |-> 0, ndx |-> 0]
            /\ threads_array' = [t \in 1..num_threads |-> Unstarted]
            /\ array_out' = [i \in 1..Len(cons_vector) |-> Unwritten]
            /\ wm_out' = "running"
    /\ UNCHANGED <<wmModel, var_value, notWm>>

\* a share without the remainder
BaseNumPerThread(cons_size, num_threads, thread) == cons_size \div num_threads

NumPerThread(cons_size, num_threads, thread) ==
    (cons_size \div num_threads)
        + (IF thread < cons_size % num_threads THEN 1 ELSE 0)

Indices(ndx, n) == [i \in 1..n |-> ndx + i - 1]

\* one turn of the first loop: thread _thread is given the next
\* _num_per_thread indices and started
StartThread ==
    /\ wm_pc = "spawn"
    /\ threads_array' =
          [threads_array EXCEPT ![wm_call.thread + 1] =
              [indices |-> Indices(wm_call.ndx,
                                   NumPerThread(Len(cons_vector), wm_call.num_threads,
                                                wm_call.thread)),
               pos |-> 1, state |-> "running"]]
    /\ IF wm_call.thread + 1 < wm_call.num_threads
       THEN /\ wm_call' = [wm_call EXCEPT
                              !.thread = @ + 1,
                              !.ndx = @ + NumPerThread(Len(cons_vector),
                                                       wm_call.num_threads,
                                                       wm_call.thread)]
            /\ UNCHANGED wm_pc
       ELSE /\ wm_call' = [wm_call EXCEPT
                              !.thread = 0,
                              !.ndx = @ + NumPerThread(Len(cons_vector),
                                                       wm_call.num_threads,
                                                       wm_call.thread)]
            /\ wm_pc' = "join"
    /\ UNCHANGED <<wmModel, var_value, wm_op, wm_array, array_out, wm_out, notWm>>

\* one turn of the loop of thread t, or its end
evaluate_subset(t) ==
    /\ t \in 1..Len(threads_array)
    /\ threads_array[t].state = "running"
    /\ IF threads_array[t].pos <= Len(threads_array[t].indices)
       THEN /\ array_out' =
                  [array_out EXCEPT ![threads_array[t].indices[threads_array[t].pos] + 1] =
                      [value |-> WmValue[cons_vector[
                                    threads_array[t].indices[threads_array[t].pos] + 1]],
                       writes |-> @.writes + 1,
                       writer |-> t]]
            /\ threads_array' = [threads_array EXCEPT ![t].pos = @ + 1]
       ELSE /\ threads_array' = [threads_array EXCEPT ![t].state = "finished"]
            /\ UNCHANGED array_out
    /\ UNCHANGED <<wmModel, var_value, wm_op, wm_array, wm_pc, wm_call, wm_out,
                   notWm>>

\* one turn of the second loop: join returns once the thread has ended
JoinThread ==
    /\ wm_pc = "join"
    /\ threads_array[wm_call.thread + 1].state = "finished"
    /\ threads_array' = [threads_array EXCEPT ![wm_call.thread + 1].state = "joined"]
    /\ wm_call' = [wm_call EXCEPT !.thread = @ + 1]
    /\ IF wm_call.thread + 1 < wm_call.num_threads
       THEN UNCHANGED <<wm_pc, wm_out>>
       ELSE wm_pc' = "idle" /\ wm_out' = "returned"
    /\ UNCHANGED <<wmModel, var_value, wm_op, wm_array, array_out, notWm>>

WmNext ==
    \/ \E con \in WmCons \ wm_cons : WNTRModel_add_constraint(con)
    \/ \E con \in wm_cons : WNTRModel_remove_constraint(con)
    \/ WNTRModel_set_structure
    \/ WNTRModel_release_structure
    \/ \E n \in 1..MaxThreads : WNTRModel_evaluate(n)
    \/ StartThread
    \/ \E t \in 1..MaxThreads : evaluate_subset(t)
    \/ JoinThread

SpecThreads == Init /\ [][WmNext]_allVars

\* the constraints and the input arrays the caller passes to the methods
WmApiCons == {"k1", "k2"}
WmApiVars == {"p"}
WmArrays == {[i \in 1..MaxVarsVector |-> i]}

\* every method of WNTRModel, called with registered and with unregistered
\* arguments
WmApiNext ==
    \/ \E v \in WmApiVars : WNTRModel_add_var(v)
    \/ \E v \in WmApiVars : WNTRModel_remove_var(v)
    \/ \E con \in WmApiCons : WNTRModel_add_constraint(con)
    \/ \E con \in WmApiCons : WNTRModel_remove_constraint(con)
    \/ WNTRModel_set_structure
    \/ WNTRModel_release_structure
    \/ WNTRModel_get_x
    \/ \E arrayin \in WmArrays : WNTRModel_load_var_values_from_x(arrayin)
    \/ WNTRModel_evaluate(1)
    \/ StartThread
    \/ evaluate_subset(1)
    \/ JoinThread
    \/ WNTRModel_evaluate_csr_jacobian

SpecWm == Init /\ [][WmApiNext]_allVars

\* the step is a call of the method op
WmCalled(op) == wm_pc = "idle" /\ wm_op' = op

\* C23: add_var, remove_var, add_constraint and remove_constraint called
\* while the structure is fixed throw and leave vars, cons, nnz,
\* vars_vector, cons_vector and is_structure_fixed unchanged; get_x,
\* load_var_values_from_x, evaluate and evaluate_csr_jacobian called while
\* the structure is not fixed throw and write nothing.
C23_GuardsThrowAndChangeNothing ==
    [][/\ \A op \in {"add_var", "remove_var", "add_constraint", "remove_constraint"} :
              (WmCalled(op) /\ is_structure_fixed) =>
                  /\ wm_out' = "runtime_error"
                  /\ UNCHANGED <<wm_vars, wm_cons, nnz, vars_vector, cons_vector,
                                 is_structure_fixed>>
       /\ \A op \in {"get_x", "load_var_values_from_x", "evaluate",
                      "evaluate_csr_jacobian"} :
              (WmCalled(op) /\ ~is_structure_fixed) =>
                  /\ wm_out' = "runtime_error"
                  /\ wm_array' = NoArrays
                  /\ UNCHANGED <<var_value, array_out, threads_array>>]_allVars

\* with a Var and two constraints registered and the structure fixed,
\* remove_var has thrown
C23_Witness ==
    /\ wm_op = "remove_var" /\ wm_out = "runtime_error"
    /\ is_structure_fixed
    /\ vars_vector = <<"p">> /\ Len(cons_vector) = 2

\* the vector v holds every member of the set S once, the member at
\* position i carrying index i
HoldsOnceInOrder(v, S) ==
    /\ Range(v) = S
    /\ Len(v) = Cardinality(S)
    /\ \A i \in 1..Len(v) : wm_index[v[i]] = i - 1

\* C29: whenever the structure is fixed, vars_vector holds each registered
\* Var once and cons_vector each registered constraint once, the element at
\* position i carrying index i; also after a second set_structure without
\* a release_structure in between.
C29_VectorsHoldEachMemberOnce ==
    is_structure_fixed =>
        /\ HoldsOnceInOrder(vars_vector, wm_vars)
        /\ HoldsOnceInOrder(cons_vector, wm_cons)

RECURSIVE SumNumVars(_)
SumNumVars(S) ==
    IF S = {} THEN 0
    ELSE LET c == CHOOSE x \in S : TRUE IN num_vars(c) + SumNumVars(S \ {c})

\* C30: in every reachable state, nnz is the sum of num_vars over the
\* constraints in cons, whether or not a constraint passed to add_constraint
\* was registered already and one passed to remove_constraint was registered.
C30_NnzIsTheSumOfNumVars == nnz = SumNumVars(wm_cons)


IndexSet(t) == {threads_array[t].indices[i] : i \in 1..Len(threads_array[t].indices)}

\* C9: the index sets handed to the threads are pairwise disjoint and
\* together are {0, ..., cons_size-1}; every output position is written at
\* most once while the call runs and exactly once, by one thread, when it
\* returns; and every thread has been joined when it returns.
C9_ThreadsPartitionTheOutput ==
    /\ \A i \in 1..Len(array_out) : array_out[i].writes <= 1
    /\ \A t1, t2 \in 1..Len(threads_array) :
          t1 # t2 => IndexSet(t1) \cap IndexSet(t2) = {}
    /\ wm_pc = "join" =>
          UNION {IndexSet(t) : t \in 1..Len(threads_array)}
              = 0..(Len(cons_vector) - 1)
    /\ wm_out = "returned" =>
          /\ \A t \in 1..Len(threads_array) : threads_array[t].state = "joined"
          /\ UNION {IndexSet(t) : t \in 1..Len(threads_array)}
                = 0..(Len(cons_vector) - 1)
          /\ \A i \in 1..Len(array_out) :
                /\ array_out[i].writes = 1
                /\ i - 1 \in IndexSet(array_out[i].writer)
                /\ array_out[i].value = WmValue[cons_vector[i]]

\* three threads have shared four constraints unevenly and the call has
\* returned
C9_Witness ==
    /\ wm_out = "returned"
    /\ Len(threads_array) = 3 /\ Len(cons_vector) = 4
    /\ Len(threads_array[1].indices) = 2 /\ Len(threads_array[3].indices) = 1

(***************************************************************************)
(* The expression operators of Node.  An operator call returns the heap    *)
(* after the call (h), the number of objects allocated so far (k) and the  *)
(* object it returns (r).                                                  *)
(***************************************************************************)
\* the double operands the caller passes
BConsts == {2}
MaxBuilds == 3
MaxEvals == 2
\* evaluate is followed while base and exponent of a power stay this small
MaxBase == 16
MaxExponent == 4

notBuild == <<heapVars, ipoptVars, usetVars, nlpVars, condVars, evalVars, wmVars,
             csrVars>>

\* Node::get_vars, Var::get_vars, Summation::get_vars, Expression::get_vars
GetVars(h, n) ==
    CASE h[n].type = "Var" -> {n}
      [] h[n].type \in {"Summation", "Expression"} -> h[n].vars
      [] OTHER -> {}

\* nodes->back()
Back(h, n) == h[n].nodes[Len(h[n].nodes)]

\* (*sparsity)[v].push_back(idx) for every v of vs
PushSparsity(sp, vs, idx) ==
    [v \in BVars |-> IF v \in vs THEN Append(sp[v], idx) ELSE sp[v]]

\* nodes->push_back(child); coefs->push_back(c); then for every variable v
\* of the child: (*sparsity)[v].push_back(nodes->size()-1); vars->insert(v)
PushChild(h, s, child, c) ==
    [h EXCEPT ![s].nodes = Append(@, child),
              ![s].coefs = Append(@, c),
              ![s].sparsity = PushSparsity(@, GetVars(h, child), Len(h[s].nodes)),
              ![s].vars = @ \cup GetVars(h, child)]

ScaleCoefs(cs, c) == [i \in 1..Len(cs) |-> c * cs[i]]

\* std::make_shared<Summation>() as the (k+1)-th allocation
NewSummation(h, k) == [h EXCEPT ![ObjectNames[k + 1]] = [Free EXCEPT !.type = "Summation"]]

RECURSIVE Extend(_, _, _, _, _, _)
\* Summation + Summation: the loop over the children of the right operand
Extend(h, n1, kids, kcoefs, c, i) ==
    IF i > Len(kids) THEN h
    ELSE Extend(PushChild(h, n1, kids[i], c * kcoefs[i]), n1, kids, kcoefs, c, i + 1)

summation_helper(h, k, n1, n2, c) ==
    CASE h[n1].type = "Summation" /\ h[n2].type = "Summation" ->
            [h |-> [Extend(h, n1, h[n2].nodes, h[n2].coefs, c, 1)
                       EXCEPT ![n1].constant = @ + c * h[n2].constant],
             k |-> k, r |-> n1]
      [] h[n1].type = "Summation" /\ h[n2].type # "Summation" ->
            [h |-> PushChild(h, n1, n2, c), k |-> k, r |-> n1]
      [] h[n1].type # "Summation" /\ h[n2].type = "Summation" ->
            [h |-> PushChild([h EXCEPT ![n2].coefs = ScaleCoefs(@, c),
                                       ![n2].constant = @ * c], n2, n1, 1),
             k |-> k, r |-> n2]
      [] OTHER ->
            [h |-> PushChild(PushChild(NewSummation(h, k), ObjectNames[k + 1], n1, 1),
                             ObjectNames[k + 1], n2, c),
             k |-> k + 1, r |-> ObjectNames[k + 1]]

\* one of the 27 operator classes: op is "*", "/" or "^"
NewOper(op, a, b) == [Free EXCEPT !.type = "Node", !.op = op, !.node1 = a, !.node2 = b]

\* node1 of the new operator object: the left operand itself, or the last
\* node of an Expression left operand; Expression / Summation and
\* Expression ^ Summation pass shared_from_this()
LeftOperand(h, op, a, b) ==
    IF h[a].type = "Expression"
    THEN IF h[b].type = "Summation" /\ op \in {"/", "^"} THEN a ELSE Back(h, a)
    ELSE a

\* node2 of the new operator object
RightOperand(h, b) == IF h[b].type = "Expression" THEN Back(h, b) ELSE b

\* a Summation operand is pushed in front of the operator
AsNode(h, n) == IF h[n].type = "Summation" THEN <<n>> ELSE <<>>

\* Node::operator*, Node::operator/, Node::__pow__
Multiplicative(h, k, op, a, b) ==
    CASE h[a].type # "Expression" /\ h[b].type # "Expression" ->
            [h |-> [h EXCEPT
                      ![ObjectNames[k + 1]] = NewOper(op, a, b),
                      ![ObjectNames[k + 2]] =
                          [Free EXCEPT !.type = "Expression",
                             !.nodes = AsNode(h, a) \o AsNode(h, b)
                                          \o <<ObjectNames[k + 1]>>,
                             !.vars = GetVars(h, a) \cup GetVars(h, b)]],
             k |-> k + 2, r |-> ObjectNames[k + 2]]
      [] h[a].type # "Expression" /\ h[b].type = "Expression" ->
            [h |-> [h EXCEPT
                      ![ObjectNames[k + 1]] = NewOper(op, a, RightOperand(h, b)),
                      ![b].nodes = @ \o AsNode(h, a) \o <<ObjectNames[k + 1]>>,
                      ![b].vars = @ \cup GetVars(h, a)],
             k |-> k + 1, r |-> b]
      [] h[a].type = "Expression" /\ h[b].type # "Expression" ->
            [h |-> [h EXCEPT
                      ![ObjectNames[k + 1]] = NewOper(op, LeftOperand(h, op, a, b), b),
                      ![a].nodes = @ \o AsNode(h, b) \o <<ObjectNames[k + 1]>>,
                      ![a].vars = @ \cup GetVars(h, b)],
             k |-> k + 1, r |-> a]
      [] OTHER ->
            [h |-> [h EXCEPT
                      ![ObjectNames[k + 1]] =
                          NewOper(op, LeftOperand(h, op, a, b), RightOperand(h, b)),
                      ![a].nodes = @ \o h[b].nodes \o <<ObjectNames[k + 1]>>,
                      ![a].vars = @ \cup h[b].vars],
             k |-> k + 1, r |-> a]

\* Node::operator-()
Negate(h, k, a) ==
    IF h[a].type = "Summation"
    THEN [h |-> [h EXCEPT ![a].coefs = ScaleCoefs(@, -1), ![a].constant = @ * (-1)],
          k |-> k, r |-> a]
    ELSE [h |-> PushChild(NewSummation(h, k), ObjectNames[k + 1], a, -1),
          k |-> k + 1, r |-> ObjectNames[k + 1]]

\* Node::add_const and Summation::add_const
AddConst(h, k, a, c) ==
    IF h[a].type = "Summation"
    THEN [h |-> [h EXCEPT ![a].constant = @ + c], k |-> k, r |-> a]
    ELSE [h |-> PushChild([NewSummation(h, k) EXCEPT ![ObjectNames[k + 1]].constant = c],
                          ObjectNames[k + 1], a, 1),
          k |-> k + 1, r |-> ObjectNames[k + 1]]

\* Node::operator*(double)
MultiplyConst(h, k, a, c) ==
    IF h[a].type = "Summation"
    THEN [h |-> [h EXCEPT ![a].constant = @ * c, ![a].coefs = ScaleCoefs(@, c)],
          k |-> k, r |-> a]
    ELSE [h |-> PushChild(NewSummation(h, k), ObjectNames[k + 1], a, c),
          k |-> k + 1, r |-> ObjectNames[k + 1]]

Binary(h, k, op, a, b) ==
    CASE op = "+" -> summation_helper(h, k, a, b, 1)
      [] op = "-" -> summation_helper(h, k, a, b, -1)
      [] OTHER -> Multiplicative(h, k, op, a, b)

\* the quotient of two doubles when it is an integer
Quotient(a, b) == IF b < 0 THEN (0 - a) \div (0 - b) ELSE a \div b

Magnitude(a) == IF a < 0 THEN 0 - a ELSE a

\* node1->value op node2->value; ok tells whether the model can hold the
\* result: an integer quotient, a power of small integers
Arith(op, a, b) ==
    CASE op = "*" -> [ok |-> TRUE, r |-> a * b]
      [] op = "/" ->
            IF b # 0 /\ Magnitude(a) % Magnitude(b) = 0
            THEN [ok |-> TRUE, r |-> Quotient(a, b)]
            ELSE [ok |-> FALSE, r |-> 0]
      [] op = "^" ->
            IF b = 0 THEN [ok |-> TRUE, r |-> 1]
            ELSE IF b > 0 /\ b <= MaxExponent /\ Magnitude(a) <= MaxBase
                 THEN [ok |-> TRUE, r |-> a ^ b]
                 ELSE [ok |-> FALSE, r |-> 0]

RECURSIVE Eval(_, _, _)
RECURSIVE EvalSum(_, _, _, _)
RECURSIVE EvalExpr(_, _, _, _)
RECURSIVE EvalSumNext(_, _, _, _)
RECURSIVE EvalExprNext(_, _, _, _)

\* value += (*coefs)[i] * n->evaluate()
EvalSumNext(c, n, i, path) ==
    IF c.st # "ok" THEN c
    ELSE EvalSum([c.h EXCEPT ![n].value = @ + c.h[n].coefs[i] * c.r], n, i + 1, path)

\* Summation::evaluate, the loop over the children
EvalSum(h, n, i, path) ==
    IF i > Len(h[n].nodes) THEN [h |-> h, r |-> h[n].value, st |-> "ok"]
    ELSE EvalSumNext(Eval(h, h[n].nodes[i], path), n, i, path)

EvalExprNext(c, n, i, path) ==
    IF c.st # "ok" THEN c ELSE EvalExpr(c.h, n, i + 1, path)

\* Expression::evaluate: every node in list order, then the last node's value
EvalExpr(h, n, i, path) ==
    IF i > Len(h[n].nodes)
    THEN [h |-> [h EXCEPT ![n].value = h[Back(h, n)].value],
          r |-> h[Back(h, n)].value, st |-> "ok"]
    ELSE EvalExprNext(Eval(h, h[n].nodes[i], path), n, i, path)

EvalOper(h, n, v) ==
    IF v.ok THEN [h |-> [h EXCEPT ![n].value = v.r], r |-> v.r, st |-> "ok"]
    ELSE [h |-> h, r |-> 0, st |-> "unrepresentable"]

\* n->evaluate(); path holds the objects whose evaluate is on the call
\* stack: a call that comes back to one of them recurses without end
Eval(h, n, path) ==
    IF n \in path THEN [h |-> h, r |-> 0, st |-> "overflow"]
    ELSE CASE h[n].type \in {"Var", "Param"} -> [h |-> h, r |-> h[n].value, st |-> "ok"]
           [] h[n].type = "Summation" ->
                 EvalSum([h EXCEPT ![n].value = h[n].constant], n, 1, path \cup {n})
           [] h[n].type = "Expression" -> EvalExpr(h, n, 1, path \cup {n})
           [] OTHER ->
                 EvalOper(h, n, Arith(h[n].op, h[h[n].node1].value, h[h[n].node2].value))

\* a loop that appends to the vector it iterates over: Summation +/-
\* itself, Expression * / ^ itself
SelfAppend(op, a, b) ==
    /\ a = b
    /\ \/ op \in {"+", "-"} /\ heap[a].type = "Summation"
       \/ op \in {"*", "/", "^"} /\ heap[a].type = "Expression"

BuildReturn(op, a, b, c, res) ==
    /\ heap' = res.h
    /\ brk' = res.k
    /\ held' = held \cup {res.r}
    /\ b_out' = [op |-> op, a |-> a, b |-> b, c |-> c, r |-> res.r, value |-> 0]
    /\ b_pc' = "ok"

\* the number of objects an operator call allocates
Allocates(op, a, b) ==
    CASE op \in {"+", "-"} ->
            IF "Summation" \in {heap[a].type, heap[b].type} THEN 0 ELSE 1
      [] op \in {"*", "/", "^"} ->
            IF "Expression" \in {heap[a].type, heap[b].type} THEN 1 ELSE 2
      [] OTHER -> IF heap[a].type = "Summation" THEN 0 ELSE 1

\* the model follows the caller while the objects have names
Building(op, a, b) ==
    /\ b_pc = "ok"
    /\ b_steps < MaxBuilds
    /\ a \in held /\ b \in held
    /\ brk + Allocates(op, a, b) <= Len(ObjectNames)
    /\ b_steps' = b_steps + 1
    /\ UNCHANGED <<b_evals, notBuild>>

\* a + b, a - b, a * b, a / b, a ^ b.  When the loop appends to the vector
\* it iterates over, the call crashes or, the capacity sufficing, runs over
\* the elements the vector had
Node_operator(op, a, b) ==
    /\ Building(op, a, b)
    /\ \/ /\ SelfAppend(op, a, b)
          /\ b_pc' = "crashed"
          /\ UNCHANGED <<heap, brk, held, b_out>>
       \/ BuildReturn(op, a, b, 0, Binary(heap, brk, op, a, b))

Node_negate(a) ==
    /\ Building("neg", a, a)
    /\ BuildReturn("neg", a, None, 0, Negate(heap, brk, a))

Node_add_const(a, c) ==
    /\ Building("add_const", a, a)
    /\ BuildReturn("add_const", a, None, c, AddConst(heap, brk, a, c))

Node_multiply_const(a, c) ==
    /\ Building("multiply_const", a, a)
    /\ BuildReturn("multiply_const", a, None, c, MultiplyConst(heap, brk, a, c))

EvaluateReturn(n, res) ==
    /\ res.st # "unrepresentable"
    /\ IF res.st = "overflow"
       THEN b_pc' = "crashed" /\ UNCHANGED <<heap, b_out>>
       ELSE /\ heap' = res.h
            /\ b_out' = [NoBuild EXCEPT !.op = "evaluate", !.a = n, !.r = n,
                                        !.value = res.r]
            /\ b_pc' = "ok"

\* n.evaluate() on the expression the caller was handed last
Node_evaluate(n) ==
    /\ b_pc = "ok"
    /\ b_evals < MaxEvals
    /\ n = b_out.r
    /\ b_evals' = b_evals + 1
    /\ EvaluateReturn(n, Eval(heap, n, {}))
    /\ UNCHANGED <<brk, held, b_steps, notBuild>>

BuildNext ==
    \/ \E op \in {"+", "-", "*", "/", "^"}, a \in BVars \cup Range(ObjectNames),
          b \in BVars \cup Range(ObjectNames) : Node_operator(op, a, b)
    \/ \E a \in BVars \cup Range(ObjectNames) : Node_negate(a)
    \/ \E a \in BVars \cup Range(ObjectNames), c \in BConsts : Node_add_const(a, c)
    \/ \E a \in BVars \cup Range(ObjectNames), c \in BConsts : Node_multiply_const(a, c)
    \/ \E n \in Range(ObjectNames) : Node_evaluate(n)

SpecBuild == Init /\ [][BuildNext]_allVars

\* C16: two consecutive evaluate() calls with no change of a Var or Param
\* value in between return the same value: in a state where n.evaluate()
\* has just returned, calling it again returns the value it returned.
C16_EvaluateIdempotent ==
    (b_out.op = "evaluate" /\ b_pc = "ok") =>
        (Eval(heap, b_out.a, {}).st = "ok" =>
            Eval(heap, b_out.a, {}).r = b_out.value)

SparsityMatches(s, v) ==
    /\ \A i \in 1..Len(heap[s].nodes) :
          ((i - 1) \in Range(heap[s].sparsity[v]))
              <=> (v \in GetVars(heap, heap[s].nodes[i]))
    /\ Range(heap[s].sparsity[v]) \subseteq 0..(Len(heap[s].nodes) - 1)
    /\ Cardinality(Range(heap[s].sparsity[v])) = Len(heap[s].sparsity[v])

\* C19: after any sequence of operator calls, for every Summation and every
\* variable v, sparsity[v] holds child index i exactly when the variable
\* set of child i contains v, each index once, and the Summation's own
\* variable set is the union of the variable sets of its children.
C19_SparsityMatchesChildren ==
    \A s \in Range(ObjectNames) :
        heap[s].type = "Summation" =>
            /\ \A v \in BVars : SparsityMatches(s, v)
            /\ heap[s].vars =
                  UNION {GetVars(heap, heap[s].nodes[i]) : i \in 1..Len(heap[s].nodes)}

\* another object has a as a child or as an operand
ReferencedElsewhere(a) ==
    \E o \in DOMAIN heap \ {a} :
        a \in Range(heap[o].nodes) \/ heap[o].node1 = a \/ heap[o].node2 = a

CalledOperator == b_steps' = b_steps + 1 /\ b_pc' = "ok"

\* C20: an operator call r = a + z, a - z, a * z, a / z, a ^ z, -a or
\* a * c whose operand a is a Summation or an Expression that another
\* object still refers to leaves a's node list, coefficients, constant and
\* variable set as they were.
C20_OperandsKeepTheirMeaning ==
    [][\A a \in Range(ObjectNames) :
          (/\ CalledOperator
           /\ b_out'.op \in {"+", "-", "*", "/", "^", "neg", "multiply_const"}
           /\ a \in {b_out'.a, b_out'.b}
           /\ heap[a].type \in {"Summation", "Expression"}
           /\ ReferencedElsewhere(a))
          => /\ heap'[a].nodes = heap[a].nodes
             /\ heap'[a].coefs = heap[a].coefs
             /\ heap'[a].constant = heap[a].constant
             /\ heap'[a].vars = heap[a].vars]_allVars

(***************************************************************************)
(* The operators of Node with a double operand: E + c, E * c, E / c and    *)
(* E ^ c.                                                                  *)
(***************************************************************************)
\* the doubles the simplification rules are about
FoldConsts == {0, 1}

\* 1.0/0.0 and 0.0 * (1.0/0.0) in IEEE arithmetic: values outside the
\* finite coefficients of the model
DoubleInf == 1000
DoubleNaN == 2000

\* 1.0/c for the doubles of FoldConsts
Reciprocal(c) == IF c = 0 THEN DoubleInf ELSE 1

\* c * x of two doubles
Times(c, x) ==
    CASE x = DoubleNaN -> DoubleNaN
      [] c = DoubleInf /\ x = 0 -> DoubleNaN
      [] c = DoubleInf /\ x > 0 -> DoubleInf
      [] c = DoubleInf /\ x < 0 -> -DoubleInf
      [] OTHER -> c * x

\* Node::operator/(double): return (*this) * (1.0/c)
DivideConst(h, k, a, c) ==
    IF h[a].type = "Summation"
    THEN [h |-> [h EXCEPT ![a].constant = Times(Reciprocal(c), @),
                          ![a].coefs = [i \in 1..Len(@) |-> Times(Reciprocal(c), @[i])]],
          k |-> k, r |-> a]
    ELSE MultiplyConst(h, k, a, Reciprocal(c))

\* std::make_shared<Param>() with p->value = c as the (k+1)-th allocation
NewParam(h, k, c) ==
    [h EXCEPT ![ObjectNames[k + 1]] = [Free EXCEPT !.type = "Param", !.value = c]]

\* Node::__pow__(double): a Param holding c, then __pow__(*p)
PowConst(h, k, a, c) ==
    Multiplicative(NewParam(h, k, c), k + 1, "^", a, ObjectNames[k + 1])

\* a call with a double operand; n is the number of objects it allocates
FoldBuilding(a, n) ==
    /\ b_pc = "ok"
    /\ b_steps < MaxBuilds
    /\ a \in held
    /\ brk + n <= Len(ObjectNames)
    /\ b_steps' = b_steps + 1
    /\ UNCHANGED <<b_evals, notBuild>>

Node_divide_const(a, c) ==
    /\ FoldBuilding(a, Allocates("divide_const", a, a))
    /\ BuildReturn("divide_const", a, None, c, DivideConst(heap, brk, a, c))

Node_pow_const(a, c) ==
    /\ FoldBuilding(a, 1 + Allocates("^", a, a))
    /\ BuildReturn("pow_const", a, None, c, PowConst(heap, brk, a, c))

FoldNext ==
    \/ \E op \in {"+", "*"}, a \in BVars \cup Range(ObjectNames),
          b \in BVars \cup Range(ObjectNames) : Node_operator(op, a, b)
    \/ \E a \in BVars \cup Range(ObjectNames), c \in FoldConsts : Node_add_const(a, c)
    \/ \E a \in BVars \cup Range(ObjectNames), c \in FoldConsts : Node_multiply_const(a, c)
    \/ \E a \in BVars \cup Range(ObjectNames), c \in FoldConsts : Node_divide_const(a, c)
    \/ \E a \in BVars \cup Range(ObjectNames), c \in FoldConsts : Node_pow_const(a, c)

SpecFold == Init /\ [][FoldNext]_allVars

\* the object n is the constant c: it has no children and no operands
IsConstant(h, n, c) ==
    \/ h[n].type = "Param" /\ h[n].value = c
    \/ h[n].type = "Summation" /\ h[n].nodes = <<>> /\ h[n].constant = c

\* C21: the simplification rules are applied when the expression is built:
\* E + 0 and E * 1 and E ^ 1 return E itself, E * 0 returns a constant 0,
\* E ^ 0 returns the constant 1, and E / 0 fails instead of returning a node.
C21_SimplificationAtBuildTime ==
    /\ (b_out.op = "add_const" /\ b_out.c = 0) => b_out.r = b_out.a
    /\ (b_out.op = "multiply_const" /\ b_out.c = 1) => b_out.r = b_out.a
    /\ (b_out.op = "multiply_const" /\ b_out.c = 0) => IsConstant(heap, b_out.r, 0)
    /\ (b_out.op = "pow_const" /\ b_out.c = 0) => IsConstant(heap, b_out.r, 1)
    /\ (b_out.op = "pow_const" /\ b_out.c = 1) => b_out.r = b_out.a
    /\ b_out.op = "divide_const" => b_out.c # 0

(***************************************************************************)
(* The list based IpoptModel as its methods accept calls: no method looks  *)
(* at whether a Var or a constraint is registered.  The caller numbers the *)
(* members of a list by position after every change of the list.           *)
(***************************************************************************)
MaxVarList == 2
MaxConsList == 1
\* the objects the caller passes
ApiVars == {"x", "w"}
ApiCons == {"c1"}
ApiObjs == {"o1"}

\* vars.push_back(v)
IpoptModel_add_var(v) ==
    /\ pc = "idle"
    /\ Len(vars) < MaxVarList
    /\ vars' = Append(vars, v)
    /\ vindex' = PositionIndex(vars', vindex, 1)
    /\ UNCHANGED <<flags, cindex, cons, obj, hessian_map, notIpopt>>

\* it = vars.begin(); std::advance(it, v->index); vars.erase(it)
IpoptModel_remove_var(v) ==
    /\ pc = "idle"
    /\ vindex[v] \in 0..(Len(vars) - 1)
    /\ vars' = RemoveAt(vars, vindex[v] + 1)
    /\ vindex' = PositionIndex(vars', [vindex EXCEPT ![v] = -1], 1)
    /\ UNCHANGED <<flags, cindex, cons, obj, hessian_map, notIpopt>>

IpoptModel_add_constraint(con) ==
    /\ pc = "idle"
    /\ con \notin Range(cons)
    /\ Len(cons) < MaxConsList
    /\ cons' = Append(cons, con)
    /\ cindex' = PositionIndex(cons', cindex, 1)
    /\ Commit(Pass(flags, hessian_map, "insert", con, "cons", VarPairs(con), 1))
    /\ UNCHANGED <<vindex, vars, obj, notIpopt>>

IpoptModel_set_objective(new_obj) ==
    /\ pc = "idle"
    /\ Commit(InsertNew(Pass(flags, hessian_map, "erase", obj, "obj",
                              IF obj # None THEN VarPairs(obj) ELSE <<>>, 1),
                         "insert", new_obj, VarPairs(new_obj)))
    /\ obj' = new_obj
    /\ UNCHANGED <<vindex, cindex, vars, cons, notIpopt>>

IpoptApiNext ==
    \/ \E v \in ApiVars : IpoptModel_add_var(v)
    \/ \E v \in ApiVars : IpoptModel_remove_var(v)
    \/ \E c \in ApiCons : IpoptModel_add_constraint(c)
    \/ \E c \in ApiCons : remove_constraint(c)
    \/ \E o \in ApiObjs : IpoptModel_set_objective(o)

SpecIpoptApi == Init /\ [][IpoptApiNext]_allVars

\* C22: after any sequence of add_var, remove_var, add_constraint,
\* remove_constraint and set_objective, every Var of the objective and of
\* the constraints is in the variable list, and the Var at position i of the
\* list carries index i, so that the indices are pairwise distinct.
C22_ReferencedVarsAreRegistered ==
    /\ \A c \in InModel : Range(get_vars(expr[c])) \subseteq Range(vars)
    /\ \A i \in 1..Len(vars) : vindex[vars[i]] = i - 1

\* ---------------------------------------------------------------------
\* CoreModel and CSRJacobian (aml/aml/wntr_model.cpp): the rows of the
\* Jacobian kept as lists while constraints come and go
\* ---------------------------------------------------------------------

MaxRows == 4

CsrCons == {"ja", "jb", "jc", "jd", "je"}

\* Var::index of the variables; u and w are in no model
CsrVarIndex == [x |-> 0, y |-> 1, u |-> -1, w |-> -1]

\* the order in which a std::set<Var*> is iterated over
CsrVarOrder == <<"y", "x", "w", "u">>

\* ConstraintBase::vars()
CsrConVars ==
    [ja |-> {"x"}, jb |-> {"x", "y"}, jc |-> {"u", "w", "x"}, jd |-> {}, je |-> {"y"}]

notCsr == <<heapVars, ipoptVars, usetVars, nlpVars, condVars, evalVars, wmVars,
            buildVars>>

compare_var_indices(first, second) == CsrVarIndex[first] < CsrVarIndex[second]

\* std::list::sort: a stable sort, here by insertion from the front
RECURSIVE ListSort(_, _)
SortInsert(sorted, v) ==
    LET k == Cardinality({i \in 1..Len(sorted) : ~compare_var_indices(v, sorted[i])})
    IN  SubSeq(sorted, 1, k) \o <<v>> \o SubSeq(sorted, k + 1, Len(sorted))

ListSort(s, sorted) ==
    IF s = <<>> THEN sorted ELSE ListSort(Tail(s), SortInsert(sorted, Head(s)))

vars_to_add(con) == ListSort(Members(CsrVarOrder, CsrConVars[con]), <<>>)

CSRJacobian_register_constraint(j, con) ==
    LET last_row_nnz == j.row_nnz[Len(j.row_nnz)]
        n_vars == Cardinality(CsrConVars[con])
    IN  [row_nnz |-> Append(j.row_nnz, n_vars + last_row_nnz),
         cons |-> j.cons \o [i \in 1..n_vars |-> con],
         vars |-> j.vars \o vars_to_add(con),
         col_ndx |-> j.col_ndx \o [i \in 1..n_vars |-> CsrVarIndex[vars_to_add(con)[i]]]]

\* list.erase(first, last) with the iterators advanced by first and last
EraseRange(list, first, last) ==
    SubSeq(list, 1, first) \o SubSeq(list, last + 1, Len(list))

\* row_nnz with the entry behind position index erased and the later
\* entries left as they were
EraseRowOnly(row_nnz, index, n_vars) == RemoveAt(row_nnz, index + 2)

\* row_nnz with the entry behind position index erased and n_vars taken
\* off every later entry
EraseRow(row_nnz, index, n_vars) ==
    [i \in 1..(Len(row_nnz) - 1) |->
        IF i <= index + 1 THEN row_nnz[i] ELSE row_nnz[i + 1] - n_vars]

CSRJacobian_remove_constraint(j, con, index) ==
    LET last_row_nnz == j.row_nnz[index + 1]
        n_vars == Cardinality(CsrConVars[con])
    IN  [row_nnz |-> EraseRow(j.row_nnz, index, n_vars),
         cons |-> EraseRange(j.cons, last_row_nnz, last_row_nnz + n_vars),
         col_ndx |-> EraseRange(j.col_ndx, last_row_nnz, last_row_nnz + n_vars),
         vars |-> EraseRange(j.vars, last_row_nnz, last_row_nnz + n_vars)]

CoreModel_register_constraint(con) ==
    /\ Len(core_cons) < MaxRows
    /\ core_cons' = Append(core_cons, con)
    /\ csr' = CSRJacobian_register_constraint(csr, con)
    /\ csr_out' = [op |-> "register_constraint", con |-> con, index |-> Len(core_cons)]
    /\ UNCHANGED notCsr

\* index is con->index; std::advance by it must stay inside both lists
CoreModel_remove_constraint(con, index) ==
    /\ index \in 0..(Len(core_cons) - 1)
    /\ core_cons' = RemoveAt(core_cons, index + 1)
    /\ csr' = CSRJacobian_remove_constraint(csr, con, index)
    /\ csr_out' = [op |-> "remove_constraint", con |-> con, index |-> index]
    /\ UNCHANGED notCsr

\* the caller registers a constraint once and keeps every constraint's
\* index equal to its position in cons
CsrNext ==
    \/ \E con \in CsrCons \ Range(core_cons) : CoreModel_register_constraint(con)
    \/ \E i \in 1..Len(core_cons) : CoreModel_remove_constraint(core_cons[i], i - 1)

SpecCsr == Init /\ [][CsrNext]_allVars

\* the entries of row i (from 1) of a list of the Jacobian
CsrRow(j, list, i) == SubSeq(list, j.row_nnz[i] + 1, j.row_nnz[i + 1])

\* the rows of the Jacobian: for each, its col_ndx, vars and cons entries
CsrRows(j) ==
    [i \in 1..(Len(j.row_nnz) - 1) |->
        [col_ndx |-> CsrRow(j, j.col_ndx, i), vars |-> CsrRow(j, j.vars, i),
         cons |-> CsrRow(j, j.cons, i)]]

CsrLayout ==
    /\ csr.row_nnz[1] = 0
    /\ Len(csr.row_nnz) = Len(core_cons) + 1
    /\ \A i \in 1..(Len(csr.row_nnz) - 1) : csr.row_nnz[i] <= csr.row_nnz[i + 1]
    /\ csr.row_nnz[Len(csr.row_nnz)] = Len(csr.col_ndx)
    /\ Len(csr.col_ndx) = Len(csr.vars)
    /\ Len(csr.vars) = Len(csr.cons)
    /\ \A i \in 1..Len(core_cons) :
          /\ \A k \in 1..(Len(CsrRows(csr)[i].col_ndx) - 1) :
                CsrRows(csr)[i].col_ndx[k] <= CsrRows(csr)[i].col_ndx[k + 1]
          /\ Range(CsrRows(csr)[i].cons) \subseteq {core_cons[i]}
          /\ Range(CsrRows(csr)[i].vars) = CsrConVars[core_cons[i]]
          /\ Len(CsrRows(csr)[i].vars) = Cardinality(CsrConVars[core_cons[i]])

\* C27: with every constraint's index equal to its row position at the
\* time of the call, row_nnz starts at 0, has one entry more than there
\* are constraints and never decreases, its last entry is the length of
\* col_ndx, of vars and of cons, col_ndx ascends within each row, and
\* remove_constraint takes out the row of the removed constraint and
\* leaves the other rows as they were, in their order
C27_CsrListsStayConsistent ==
    /\ []CsrLayout
    /\ [][csr_out'.op = "remove_constraint" =>
             CsrRows(csr') = RemoveAt(CsrRows(csr), csr_out'.index + 1)]_allVars
    /\ [][csr_out'.op = "register_constraint" =>
             SubSeq(CsrRows(csr'), 1, Len(core_cons)) = CsrRows(csr)]_allVars

\* a row between two others was removed, and the rows left include one
\* with no variable and one with three
C27_Witness ==
    /\ csr_out.op = "remove_constraint" /\ csr_out.index = 1
    /\ Len(core_cons) = 3
    /\ csr_out.con = "jb"
    /\ core_cons[1] = "jd" /\ core_cons[2] = "jc"
    /\ csr.col_ndx = <<-1, -1, 0, 1>>

====
